---- MODULE Spec2Model ----
(***************************************************************************)
(* Model of the four provider renewal scripts of this repository           *)
(* (Castle-Host, KataBump, Lunes-Host, Weirdhost).  Every script is a      *)
(* single-shot process: one value of `script` is chosen initially and      *)
(* only that script's actions are enabled afterwards.  Strings whose       *)
(* contents the code inspects character by character (cookie strings) are  *)
(* sequences of one-character strings.                                     *)
(***************************************************************************)
EXTENDS Integers, Sequences, FiniteSets, TLC

(***************************************************************************)
(* Bounds of the model.                                                    *)
(***************************************************************************)
MaxLen == 4
MaxAccounts == 2

(***************************************************************************)
(* Python string primitives used by the cookie code.                       *)
(***************************************************************************)
IsSpace(c) == c = " "

RECURSIVE lstrip(_)
lstrip(s) == IF s # <<>> /\ IsSpace(Head(s)) THEN lstrip(Tail(s)) ELSE s

RECURSIVE rstrip(_)
rstrip(s) == IF s # <<>> /\ IsSpace(s[Len(s)]) THEN rstrip(SubSeq(s, 1, Len(s) - 1)) ELSE s

strip(s) == rstrip(lstrip(s))

contains(s, c) == \E i \in 1..Len(s) : s[i] = c

find(s, c) ==
    IF contains(s, c)
    THEN CHOOSE i \in 1..Len(s) : s[i] = c /\ \A j \in 1..(i - 1) : s[j] # c
    ELSE 0

RECURSIVE split(_, _)
split(s, c) ==
    LET i == find(s, c)
    IN  IF i = 0 THEN <<s>>
        ELSE <<SubSeq(s, 1, i - 1)>> \o split(SubSeq(s, i + 1, Len(s)), c)

RECURSIVE join(_, _)
join(parts, sep) ==
    IF parts = <<>> THEN <<>>
    ELSE IF Len(parts) = 1 THEN parts[1]
    ELSE parts[1] \o sep \o join(Tail(parts), sep)

\* The variant that splits a segment at its last "=".
split_last_eq(p) ==
    LET i == CHOOSE k \in 1..Len(p) : p[k] = "=" /\ \A j \in (k + 1)..Len(p) : p[j] # "="
    IN  [name |-> strip(SubSeq(p, 1, i - 1)), value |-> strip(SubSeq(p, i + 1, Len(p)))]

\* p.split("=", 1) of a segment that contains "=", both halves stripped.
split_first_eq(p) ==
    LET i == find(p, "=")
    IN  [name |-> strip(SubSeq(p, 1, i - 1)), value |-> strip(SubSeq(p, i + 1, Len(p)))]

(***************************************************************************)
(* Castle-Host parse_cookie_string.                                        *)
(***************************************************************************)
CASTLE_DOMAIN == ".castle-host.com"

RECURSIVE castle_cookie_loop(_)
castle_cookie_loop(parts) ==
    IF parts = <<>> THEN <<>>
    ELSE LET part == strip(Head(parts))
             rest == castle_cookie_loop(Tail(parts))
         IN  IF part = <<>> THEN rest
             ELSE IF contains(part, "=")
                  THEN LET nv == split_first_eq(part)
                       IN  <<[name |-> nv.name, value |-> nv.value,
                              domain |-> CASTLE_DOMAIN, path |-> "/"]>> \o rest
                  ELSE rest

parse_cookie_string(cookie_str) == castle_cookie_loop(split(cookie_str, ";"))

(***************************************************************************)
(* Lunes-Host parse_cookies: one record per domain for every segment.      *)
(***************************************************************************)
LUNES_DOMAINS == <<".lunes.host", "betadash.lunes.host", "ctrl.lunes.host">>

lunes_segment_cookies(n, v) ==
    [d \in 1..Len(LUNES_DOMAINS) |->
        [name |-> n, value |-> v, domain |-> LUNES_DOMAINS[d], path |-> "/"]]

RECURSIVE lunes_cookie_loop(_)
lunes_cookie_loop(parts) ==
    IF parts = <<>> THEN <<>>
    ELSE LET p == strip(Head(parts))
             rest == lunes_cookie_loop(Tail(parts))
         IN  IF contains(p, "=")
             THEN LET nv == split_first_eq(p)
                  IN  lunes_segment_cookies(nv.name, nv.value) \o rest
             ELSE rest

parse_cookies(s) == lunes_cookie_loop(split(s, ";"))

(***************************************************************************)
(* Inputs of the parsing specification: every string over ParseAlphabet    *)
(* of length at most MaxLen, and the example of the specification.         *)
(***************************************************************************)
ParseAlphabet == {"a", "=", ";", " "}

ExampleCookie == <<"a", "=", "1", ";", " ", "b", "=", "2">>

ParseInputs ==
    UNION {[1..n -> ParseAlphabet] : n \in 0..MaxLen} \cup {ExampleCookie}

VARIABLES
    script,      \* which script this process runs
    pc,          \* position of the script's main flow
    status,      \* "running", "ok" (normal end), "crashed" (uncaught exception), "exit1"
    notes,       \* chat notifications sent so far, in order
    clicks,      \* clicks on renewal/start controls performed so far, in order
    launched,    \* number of browser launches
    visited,     \* number of provider page navigations
    secrets,     \* secret-store updates attempted so far, in order
    castle,      \* Castle-Host local state
    kata,        \* KataBump local state
    lunes,       \* Lunes-Host local state
    weird,       \* Weirdhost local state
    parseIn,     \* parsing specification: the input string
    parseOut     \* parsing specification: the result of the last parse

vars == <<script, pc, status, notes, clicks, launched, visited, secrets,
          castle, kata, lunes, weird, parseIn, parseOut>>

procVars == <<script, pc, status, notes, clicks, launched, visited, secrets,
              castle, kata, lunes, weird>>

Idle == [idle |-> TRUE]
NoParse == [fn |-> "none", cookies |-> <<>>]


(***************************************************************************)
(* Shared helpers of the script models.                                    *)
(***************************************************************************)
Note(k, p) == [kind |-> k, photo |-> p]

\* A notification whose message quotes an error text.
NoteT(k, p, t) == [kind |-> k, photo |-> p, text |-> t]

Append2(s, a, b) == Append(Append(s, a), b)

(***************************************************************************)
(* Castle-Host.                                                            *)
(***************************************************************************)
\* Values of the CASTLE_COOKIES environment variable.
CastleCookieEnv == {<<>>, <<" ">>, <<"x">>, <<"a", "=", "1", ";", "x">>}

\* Rendered page texts after the click, and the indicator phrases that occur in
\* their lower-cased form.  The Russian and Chinese phrases of the source are
\* written in Latin transliteration; the page texts use the English phrases of
\* the same indicator lists.
CastlePageTexts ==
    {"Server valid until 12.01.2026", "Server renewed",
     "Already renewed in 24 hours", "Insufficient funds", "Server error"}

IndicatorsIn(text) ==
    CASE text = "Server renewed" -> {"renewed", "server renewed"}
      [] text = "Already renewed in 24 hours" -> {"renewed", "already renewed"}
      [] text = "Insufficient funds" -> {"insufficient funds"}
      [] text = "Server error" -> {"error"}
      [] OTHER -> {}

success_indicators ==
    {"uspekh", "success", "prodlen", "renewed", "xuyue chenggong", "server prodlen",
     "server renewed"}

error_indicators ==
    {"oshibka", "error", "shibai", "ne udalos", "uzhe prodlen", "already renewed",
     "nedostatochno sredstv", "insufficient funds"}

CastleInit ==
    [cookie_str |-> <<>>, cookies |-> <<>>,
     original_expiry |-> "", days_until_expiry |-> "Unknown",
     disabled |-> "None", request_sent |-> FALSE, response |-> "none",
     page_text |-> "", renewal_success |-> FALSE, new_expiry |-> "None",
     success |-> FALSE, error_message |-> "", history |-> <<>>, rejected |-> FALSE,
     button_found |-> ""]

\* The record json.dump appends to renewal_history.json.
CastleRecord(c) ==
    [success |-> c.success, error_message |-> c.error_message,
     before_expiry |-> c.original_expiry, after_expiry |-> c.new_expiry]

\* Entry point: an empty CASTLE_COOKIES ends the process before main is called.
CastleEntry ==
    /\ script = "castle" /\ pc = "entry"
    /\ IF castle.cookie_str = <<>>
       THEN pc' = "done" /\ status' = "exit1"
       ELSE pc' = "main" /\ UNCHANGED status
    /\ UNCHANGED <<script, notes, clicks, launched, visited, secrets,
                   castle, kata, lunes, weird, parseIn, parseOut>>

\* Early return of main without credentials (the variant launches anyway).
castle_main_no_cookies_launches(cookies) == FALSE

castle_main_no_cookies(cookies) == cookies = <<>>

\* main up to the browser launch: credential checks.
CastleMain ==
    /\ script = "castle" /\ pc = "main"
    /\ LET cookies == parse_cookie_string(castle.cookie_str)
       IN  IF castle.cookie_str = <<>> \/ castle_main_no_cookies(cookies)
           THEN /\ notes' = Append(notes, Note("config", FALSE))
                /\ pc' = "done" /\ status' = "ok"
                /\ castle' = [castle EXCEPT !.cookies = cookies]
           ELSE /\ castle' = [castle EXCEPT !.cookies = cookies]
                /\ pc' = "launch"
                /\ UNCHANGED <<notes, status>>
    /\ UNCHANGED <<script, clicks, launched, visited, secrets,
                   kata, lunes, weird, parseIn, parseOut>>

\* Browser launch, context, cookie injection, page: outside main's try block.
CastleLaunch ==
    /\ script = "castle" /\ pc = "launch"
    /\ launched' = launched + 1
    /\ \E ok \in BOOLEAN :
          IF ok THEN pc' = "goto" /\ UNCHANGED status
          ELSE pc' = "done" /\ status' = "crashed"
    /\ UNCHANGED <<script, notes, clicks, visited, secrets,
                   castle, kata, lunes, weird, parseIn, parseOut>>

\* page.goto and the login check of the resulting URL.
CastleGoto ==
    /\ script = "castle" /\ pc = "goto"
    /\ visited' = visited + 1
    /\ \E url \in {"server", "login", "raise"} :
          /\ pc' = CASE url = "server" -> "info"
                     [] url = "login" -> "login"
                     [] OTHER -> "except"
          /\ castle' = [castle EXCEPT !.rejected = (url = "login")]
    /\ UNCHANGED <<script, status, notes, clicks, launched, secrets,
                   kata, lunes, weird, parseIn, parseOut>>

\* Where main continues after the login-failure report: the return statement
\* leaves through the finally clause (the variant falls through to the renewal).
castle_login_falls_through == "info"

castle_login_return == "finally"

\* Session rejected: screenshot, notification, return.
CastleLoginFailed ==
    /\ script = "castle" /\ pc = "login"
    /\ \E shot \in BOOLEAN :
          IF shot
          THEN /\ notes' = Append(notes, Note("login", FALSE))
               /\ pc' = castle_login_return
          ELSE /\ pc' = "except"
               /\ UNCHANGED notes
    /\ UNCHANGED <<script, status, clicks, launched, visited, secrets,
                   castle, kata, lunes, weird, parseIn, parseOut>>

\* extract_server_info: expiry date and days until expiry scraped from the page.
\* main then compares the days with 3 and only writes a log line when more
\* remain: perform_renewal is called on every branch, so the next step is the
\* button lookup whatever the days are.
CastleExtractInfo ==
    /\ script = "castle" /\ pc = "info"
    /\ \E exp \in {"Unknown", "12.01.2026"}, days \in {"Unknown", "2", "5"} :
          castle' = [castle EXCEPT !.original_expiry = exp, !.days_until_expiry = days]
    /\ pc' = "find"
    /\ UNCHANGED <<script, status, notes, clicks, launched, visited, secrets,
                   kata, lunes, weird, parseIn, parseOut>>

\* perform_renewal, first part: locate the button and test its disabled attribute.
\* found = "raise" stands for any exception of the lookup, caught by perform_renewal.
CastleFindButton ==
    /\ script = "castle" /\ pc = "find"
    /\ \E found \in {"yes", "no", "raise"}, attr \in {"None", "", "disabled"} :
          /\ found # "yes" => attr = "None"
          /\ castle' = [castle EXCEPT !.disabled = attr, !.button_found = found]
          /\ pc' = CASE found = "raise" -> "verify"
                     [] found = "no" -> "freepay"
                     [] attr \notin {"None", ""} -> "verify"
                     [] OTHER -> "click"
    /\ UNCHANGED <<script, status, notes, clicks, launched, visited, secrets,
                   kata, lunes, weird, parseIn, parseOut>>

\* The variant that returns True only for a confirmed renewal.
castle_after_click_confirmed(request_sent, request_200, text) ==
    /\ (error_indicators \cap IndicatorsIn(text)) = {}
    /\ (request_200 \/ (success_indicators \cap IndicatorsIn(text)) # {})

\* The value perform_renewal returns once the page text has been read.
castle_after_click(request_sent, request_200, text) ==
    LET request_success == request_200 \/ (success_indicators \cap IndicatorsIn(text)) # {}
    IN  IF (error_indicators \cap IndicatorsIn(text)) # {} THEN FALSE
        ELSE IF request_sent /\ request_success THEN TRUE
        ELSE IF request_success THEN TRUE
        ELSE TRUE

\* perform_renewal, second part: click, wait for the request, read the page text.
CastleClick ==
    /\ script = "castle" /\ pc = "click"
    /\ \E clickOk \in BOOLEAN :
          IF ~clickOk
          THEN /\ pc' = "verify"
               /\ UNCHANGED <<clicks, castle>>
          ELSE /\ clicks' = Append(clicks, [script |-> "castle", what |-> "renew"])
               /\ \E sent \in BOOLEAN, resp \in {"none", "200", "500"},
                     text \in CastlePageTexts \cup {"raise"} :
                     /\ (resp # "none") => sent
                     /\ castle' = [castle EXCEPT
                           !.request_sent = sent,
                           !.response = resp,
                           !.page_text = text,
                           !.renewal_success =
                               IF text = "raise" THEN FALSE
                               ELSE castle_after_click(sent, resp = "200", text)]
               /\ pc' = "verify"
    /\ UNCHANGED <<script, status, notes, launched, visited, secrets,
                   kata, lunes, weird, parseIn, parseOut>>

\* perform_renewal, button not found: call the page's freePay function.
CastleFreePay ==
    /\ script = "castle" /\ pc = "freepay"
    /\ \E js \in {"called", "absent", "raise"} :
          /\ castle' = [castle EXCEPT !.renewal_success = (js = "called")]
          /\ clicks' = IF js = "called"
                       THEN Append(clicks, [script |-> "castle", what |-> "freePay"])
                       ELSE clicks
    /\ pc' = "verify"
    /\ UNCHANGED <<script, status, notes, launched, visited, secrets,
                   kata, lunes, weird, parseIn, parseOut>>

\* renewal_data["success"] as main decides it.
castle_decide_success(renewal_success, original_expiry, new_expiry) ==
    IF new_expiry # "None" /\ new_expiry # "Unknown"
    THEN original_expiry # new_expiry
    ELSE renewal_success

\* verify_renewal (only after a successful perform_renewal), the decision, the
\* notification and the history record.
CastleVerifyAndReport ==
    /\ script = "castle" /\ pc = "verify"
    /\ \E new \in {"None", "12.01.2026", "19.01.2026", "05.01.2026"} :
          /\ ~castle.renewal_success => new = "None"
          /\ LET ok == castle_decide_success(castle.renewal_success,
                                             castle.original_expiry, new)
                 msg == IF new # "None"
                        THEN (IF ok THEN "" ELSE "expiry unchanged")
                        ELSE (IF castle.renewal_success THEN "" ELSE "renewal failed")
                 c2 == [castle EXCEPT !.new_expiry = new, !.success = ok,
                                      !.error_message = msg]
             IN  /\ castle' = [c2 EXCEPT !.history = Append(@, CastleRecord(c2))]
                 /\ notes' = Append(notes, NoteT(IF ok THEN "success" ELSE "failure", FALSE, msg))
    /\ pc' = "shot"
    /\ UNCHANGED <<script, status, clicks, launched, visited, secrets,
                   kata, lunes, weird, parseIn, parseOut>>

\* The result screenshot that ends the try block.
CastleResultShot ==
    /\ script = "castle" /\ pc = "shot"
    /\ \E ok \in BOOLEAN : pc' = IF ok THEN "finally" ELSE "except"
    /\ UNCHANGED <<script, status, notes, clicks, launched, visited, secrets,
                   castle, kata, lunes, weird, parseIn, parseOut>>

\* except Exception: record the failure, notify, append to the history.
CastleExcept ==
    /\ script = "castle" /\ pc = "except"
    /\ LET c2 == [castle EXCEPT !.success = FALSE, !.error_message = "exception"]
       IN  castle' = [c2 EXCEPT !.history = Append(@, CastleRecord(c2))]
    /\ notes' = Append(notes, Note("exception", FALSE))
    /\ pc' = "finally"
    /\ UNCHANGED <<script, status, clicks, launched, visited, secrets,
                   kata, lunes, weird, parseIn, parseOut>>

\* finally: close the context and the browser; main returns.
CastleFinally ==
    /\ script = "castle" /\ pc = "finally"
    /\ pc' = "done" /\ status' = "ok"
    /\ UNCHANGED <<script, notes, clicks, launched, visited, secrets,
                   castle, kata, lunes, weird, parseIn, parseOut>>

CastleNext ==
    \/ CastleEntry \/ CastleMain \/ CastleLaunch \/ CastleGoto \/ CastleLoginFailed
    \/ CastleExtractInfo \/ CastleFindButton \/ CastleClick \/ CastleFreePay
    \/ CastleVerifyAndReport \/ CastleResultShot \/ CastleExcept \/ CastleFinally

(***************************************************************************)
(* KataBump.                                                               *)
(***************************************************************************)
(* Dates.  A date string is a sequence of tokens: runs of digits (with     *)
(* their value and width) and the characters between them.  A datetime is  *)
(* a record of year, month and day (the scripts use midnight only).        *)
(***************************************************************************)
Num(v, w) == [num |-> TRUE, value |-> v, width |-> w, ch |-> ""]

Sep(c) == [num |-> FALSE, value |-> 0, width |-> 0, ch |-> c]

\* The value None passed where a date string is expected.
NoneStr == <<Sep("None")>>

IsLeap(y) == (y % 4 = 0 /\ y % 100 # 0) \/ y % 400 = 0

DaysInMonth(y, m) ==
    CASE m \in {1, 3, 5, 7, 8, 10, 12} -> 31
      [] m \in {4, 6, 9, 11} -> 30
      [] OTHER -> IF IsLeap(y) THEN 29 ELSE 28

RECURSIVE DaysBeforeMonth(_, _)
DaysBeforeMonth(y, m) ==
    IF m = 1 THEN 0 ELSE DaysBeforeMonth(y, m - 1) + DaysInMonth(y, m - 1)

\* datetime(y, m, d): the date, or ValueError for a day that does not exist.
datetime(y, m, d) ==
    IF y \in 1..9999 /\ m \in 1..12 /\ d \in 1..DaysInMonth(y, m)
    THEN [tag |-> "date", y |-> y, m |-> m, d |-> d]
    ELSE [tag |-> "ValueError", y |-> 0, m |-> 0, d |-> 0]

toordinal(dt) ==
    LET y1 == dt.y - 1
    IN  365 * y1 + (y1 \div 4) - (y1 \div 100) + (y1 \div 400)
        + DaysBeforeMonth(dt.y, dt.m) + dt.d

\* (a - b).days of two datetimes at midnight.
timedelta_days(a, b) == toordinal(a) - toordinal(b)

\* Whether the string is three numbers separated twice by sep, with at most two
\* digits where %d and %m stand and exactly four where %Y stands (yearAt).
MatchesThree(s, sep1, sep2, yearAt) ==
    /\ Len(s) = 5
    /\ s[1].num /\ s[3].num /\ s[5].num
    /\ ~s[2].num /\ s[2].ch = sep1
    /\ ~s[4].num /\ s[4].ch = sep2
    /\ \A i \in {1, 3, 5} : IF i = yearAt THEN s[i].width = 4 ELSE s[i].width \in {1, 2}

\* datetime.strptime(date_str, fmt) for the three formats of the scripts.
strptime(date_str, fmt) ==
    IF date_str = NoneStr THEN [tag |-> "TypeError", y |-> 0, m |-> 0, d |-> 0]
    ELSE CASE fmt = "%d.%m.%Y" ->
                IF MatchesThree(date_str, ".", ".", 5)
                THEN datetime(date_str[5].value, date_str[3].value, date_str[1].value)
                ELSE [tag |-> "ValueError", y |-> 0, m |-> 0, d |-> 0]
           [] fmt = "%Y-%m-%d" ->
                IF MatchesThree(date_str, "-", "-", 1)
                THEN datetime(date_str[1].value, date_str[3].value, date_str[5].value)
                ELSE [tag |-> "ValueError", y |-> 0, m |-> 0, d |-> 0]
           [] OTHER ->
                IF Len(date_str) = 6 /\ MatchesThree(SubSeq(date_str, 1, 5), "nian", "yue", 1)
                   /\ ~date_str[6].num /\ date_str[6].ch = "ri"
                THEN datetime(date_str[1].value, date_str[3].value, date_str[5].value)
                ELSE [tag |-> "ValueError", y |-> 0, m |-> 0, d |-> 0]

\* The formats parse_date tries, in order; the Chinese one is written with the
\* Latin names of its three characters.
castle_formats == <<"%d.%m.%Y", "%Ynian%myue%dri", "%Y-%m-%d">>

\* The body of parse_date's try block: the format loop, which skips a format on
\* ValueError only, and then the digits of the string taken as day, month, year.
RECURSIVE parse_date_try(_, _)
parse_date_try(date_str, k) ==
    IF k <= Len(castle_formats)
    THEN LET r == strptime(date_str, castle_formats[k])
         IN  IF r.tag = "ValueError" THEN parse_date_try(date_str, k + 1) ELSE r
    ELSE LET numbers == SelectSeq(date_str, LAMBDA t : t.num)
         IN  IF Len(numbers) >= 3 /\ numbers[3].width = 4
             THEN datetime(numbers[3].value, numbers[2].value, numbers[1].value)
             ELSE [tag |-> "None", y |-> 0, m |-> 0, d |-> 0]

\* parse_date without its outer except clause.
parse_date_unguarded(date_str) == parse_date_try(date_str, 1)

\* parse_date: any exception of the body gives None.
parse_date(date_str) ==
    LET r == parse_date_try(date_str, 1)
    IN  IF r.tag \in {"ValueError", "TypeError"}
        THEN [tag |-> "None", y |-> 0, m |-> 0, d |-> 0]
        ELSE r

\* calculate_date_difference: tag "int" with the day difference, "None", or
\* "raise" when an exception leaves the function.
calculate_date_difference(date1_str, date2_str) ==
    LET date1 == parse_date(date1_str)
        date2 == parse_date(date2_str)
    IN  IF date1.tag \in {"ValueError", "TypeError"} \/ date2.tag \in {"ValueError", "TypeError"}
        THEN [tag |-> "raise", n |-> 0]
        ELSE IF date1.tag = "None" \/ date2.tag = "None" THEN [tag |-> "None", n |-> 0]
        ELSE [tag |-> "int", n |-> timedelta_days(date2, date1)]

\* KataBump days_until: <<>> is None (the bare except), <<n>> the number of days
\* from today at midnight to the date.
days_until(date_str, today) ==
    LET exp == strptime(date_str, "%Y-%m-%d")
    IN  IF exp.tag = "date" THEN <<timedelta_days(exp, today)>> ELSE <<>>

(***************************************************************************)
KataUnknown == "unknown"      \* the source's placeholder for an unreadable expiry

KataInit ==
    [creds |-> TRUE, old_expiry |-> "", days |-> <<>>, url |-> "",
     captcha |-> FALSE, new_expiry |-> "", outcome |-> "none", rejected |-> FALSE]

\* The token form of the expiry texts the server page can show.
KataDateText(e) ==
    IF e = KataUnknown THEN <<Sep("unknown")>>
    ELSE <<Num(2026, 4), Sep("-"), Num(1, 2), Sep("-"), Num(12, 2)>>

\* The days on which the run can take place: 1 and 5 days before the expiry.
KataTodays == {[tag |-> "date", y |-> 2026, m |-> 1, d |-> 11],
               [tag |-> "date", y |-> 2026, m |-> 1, d |-> 7]}

\* ISO dates compare as strings in date order.
IsoLess(a, b) == <<a, b>> \in {<<"2026-01-05", "2026-01-12">>, <<"2026-01-05", "2026-01-19">>,
                               <<"2026-01-12", "2026-01-19">>}

\* main: without KATA_EMAIL or KATA_PASSWORD the process exits with status 1.
KataMain ==
    /\ script = "kata" /\ pc = "main"
    /\ IF kata.creds THEN pc' = "launch" /\ UNCHANGED status
       ELSE pc' = "done" /\ status' = "exit1"
    /\ UNCHANGED <<script, notes, clicks, launched, visited, secrets,
                   castle, kata, lunes, weird, parseIn, parseOut>>

\* Browser launch, context and page: outside run's try block.
KataLaunch ==
    /\ script = "kata" /\ pc = "launch"
    /\ launched' = launched + 1
    /\ \E ok \in BOOLEAN :
          IF ok THEN pc' = "login" /\ UNCHANGED status
          ELSE pc' = "done" /\ status' = "crashed"
    /\ UNCHANGED <<script, notes, clicks, visited, secrets,
                   castle, kata, lunes, weird, parseIn, parseOut>>

\* Login form and the check of the URL after it.
KataLogin ==
    /\ script = "kata" /\ pc = "login"
    /\ visited' = visited + 1
    /\ \E r \in {"ok", "rejected", "rejected_noshot", "raise"} :
          /\ notes' = IF r = "rejected" THEN Append(notes, Note("login", TRUE)) ELSE notes
          /\ pc' = IF r = "ok" THEN "server" ELSE "except"
          /\ kata' = [kata EXCEPT !.rejected = r \in {"rejected", "rejected_noshot"}]
    /\ UNCHANGED <<script, status, clicks, launched, secrets,
                   castle, lunes, weird, parseIn, parseOut>>

\* The variant that goes on to the confirm click once the main button was clicked.
kata_after_modal_unchecked(r) ==
    IF r \in {"raise", "no_button"} THEN "except" ELSE "confirm"

\* Where run continues after the modal step: each failed lookup raises.
kata_after_modal(r) == IF r = "ready" THEN "confirm" ELSE "except"

\* Server page: scrape the expiry date, locate the main Renew button, click it,
\* wait for the modal and locate its confirm button.
KataOpenModal ==
    /\ script = "kata" /\ pc = "server"
    /\ visited' = visited + 1
    /\ \E exp \in {KataUnknown, "2026-01-12"}, today \in KataTodays,
          r \in {"raise", "no_button", "no_modal", "no_confirm", "ready"} :
          /\ kata' = [kata EXCEPT !.old_expiry = IF r = "raise" THEN @ ELSE exp,
                                  !.days = IF r = "raise" THEN @ ELSE days_until(KataDateText(exp), today),
                                  !.outcome = IF r \in {"raise", "ready"} THEN @ ELSE r]
          /\ clicks' = IF r \in {"no_modal", "no_confirm", "ready"}
                       THEN Append(clicks, [script |-> "kata", what |-> "open_modal"])
                       ELSE clicks
          /\ notes' = IF r \in {"no_button", "no_modal", "no_confirm"}
                      THEN Append(notes, Note("nobutton", TRUE)) ELSE notes
          /\ pc' = kata_after_modal(r)
    /\ UNCHANGED <<script, status, launched, secrets,
                   castle, lunes, weird, parseIn, parseOut>>

\* The URLs the confirmation can lead to, by the markers they contain.
KataUrls == {"renew=success", "renew-error", "renew=success&renew-error", "other"}

\* marker in current_url
kata_url_has(url, marker) ==
    \/ url = marker
    \/ url = "renew=success&renew-error" /\ marker \in {"renew=success", "renew-error"}

\* Click the modal's confirm button and read the resulting URL and page.
KataConfirm ==
    /\ script = "kata" /\ pc = "confirm"
    /\ \E r \in {"raise_click", "raise_wait"} \cup KataUrls, cap \in BOOLEAN :
          /\ (r \notin KataUrls) => ~cap
          /\ clicks' = IF r = "raise_click" THEN clicks
                       ELSE Append(clicks, [script |-> "kata", what |-> "renew"])
          /\ kata' = [kata EXCEPT !.url = r, !.captcha = cap]
          /\ pc' = IF r \in {"raise_click", "raise_wait"} THEN "except" ELSE "result"
    /\ UNCHANGED <<script, status, notes, launched, visited, secrets,
                   castle, lunes, weird, parseIn, parseOut>>

\* The paths that send their photo only when at most two days remain.
kata_notify_due(days) == days # <<>> /\ days[1] <= 2

\* The variant that tests for the captcha before the redirects.
kata_result_branch_captcha_first(url, captcha) ==
    IF captcha THEN "captcha"
    ELSE IF kata_url_has(url, "renew=success") THEN "success"
    ELSE IF kata_url_has(url, "renew-error") THEN "limited"
    ELSE "recheck"

\* The if / elif chain of the result check: the branch that is taken.
kata_result_branch(url, captcha) ==
    IF kata_url_has(url, "renew=success") THEN "success"
    ELSE IF kata_url_has(url, "renew-error") THEN "limited"
    ELSE IF captcha THEN "captcha"
    ELSE "recheck"

\* Result check on the URL and page after the confirmation.
KataResult ==
    /\ script = "kata" /\ pc = "result"
    /\ \E shot \in BOOLEAN :
          IF ~shot
          THEN /\ pc' = "except" /\ UNCHANGED <<notes, kata>>
          ELSE
             CASE kata_result_branch(kata.url, kata.captcha) = "success" ->
                    /\ notes' = Append(notes, Note("success", TRUE))
                    /\ kata' = [kata EXCEPT !.outcome = "success"]
                    /\ pc' = "finally"
               [] kata_result_branch(kata.url, kata.captcha) = "limited" ->
                    /\ notes' = IF kata_notify_due(kata.days)
                                THEN Append(notes, Note("cooldown", TRUE)) ELSE notes
                    /\ kata' = [kata EXCEPT !.outcome = "limited"]
                    /\ pc' = "finally"
               [] kata_result_branch(kata.url, kata.captcha) = "captcha" ->
                    /\ notes' = IF kata_notify_due(kata.days)
                                THEN Append(notes, Note("captcha", TRUE)) ELSE notes
                    /\ kata' = [kata EXCEPT !.outcome = "captcha"]
                    /\ pc' = "finally"
               [] OTHER ->
                    /\ pc' = "recheck" /\ UNCHANGED <<notes, kata>>
    /\ UNCHANGED <<script, status, clicks, launched, visited, secrets,
                   castle, lunes, weird, parseIn, parseOut>>

\* No redirect and no captcha: reload the server page and compare expiry dates.
KataRecheck ==
    /\ script = "kata" /\ pc = "recheck"
    /\ visited' = visited + 1
    /\ \E new \in {KataUnknown, "2026-01-05", "2026-01-12", "2026-01-19", "raise"} :
          IF new = "raise"
          THEN /\ pc' = "except" /\ UNCHANGED <<notes, kata>>
          ELSE IF new # KataUnknown /\ kata.old_expiry # KataUnknown
                  /\ IsoLess(kata.old_expiry, new)
               THEN /\ notes' = Append(notes, Note("success", TRUE))
                    /\ kata' = [kata EXCEPT !.new_expiry = new, !.outcome = "success"]
                    /\ pc' = "finally"
               ELSE /\ notes' = IF kata_notify_due(kata.days)
                                THEN Append(notes, Note("manual", TRUE)) ELSE notes
                    /\ kata' = [kata EXCEPT !.new_expiry = new, !.outcome = "unknown"]
                    /\ pc' = "finally"
    /\ UNCHANGED <<script, status, clicks, launched, secrets,
                   castle, lunes, weird, parseIn, parseOut>>

\* How run ends after its except clause: "crashed" is the bare raise.
kata_except_end == "crashed"

\* except Exception: notify, re-raise; finally closes the browser on the way out.
KataExcept ==
    /\ script = "kata" /\ pc = "except"
    /\ notes' = Append(notes, Note("exception", FALSE))
    /\ pc' = "done" /\ status' = kata_except_end
    /\ UNCHANGED <<script, clicks, launched, visited, secrets,
                   castle, kata, lunes, weird, parseIn, parseOut>>

\* finally: close the browser; run returns.
KataFinally ==
    /\ script = "kata" /\ pc = "finally"
    /\ pc' = "done" /\ status' = "ok"
    /\ UNCHANGED <<script, notes, clicks, launched, visited, secrets,
                   castle, kata, lunes, weird, parseIn, parseOut>>

KataNext ==
    \/ KataMain \/ KataLaunch \/ KataLogin \/ KataOpenModal \/ KataConfirm
    \/ KataResult \/ KataRecheck \/ KataExcept \/ KataFinally

(***************************************************************************)
(* Weirdhost.                                                              *)
(***************************************************************************)
ApiWaitIters == 30     \* iterations of each "wait for the API response" loop

\* Bodies of the intercepted renewal response.  BodyNone is the initial None of
\* renew_result["body"].
BodyNone == [type |-> "none"]
BodyOk == [type |-> "dict", errors |-> <<>>]
BodyCooldown == [type |-> "dict", errors |-> <<[detail |-> "You Can't Renew yet"]>>]
BodyFunds == [type |-> "dict", errors |-> <<[detail |-> "Insufficient credits"]>>]
BodyText == [type |-> "str", text |-> "Bad Gateway"]

\* A JSON null where the detail of the first error is expected: response.json()
\* gives whatever the server sent.
DetailNull == "<null>"

BodyNullDetail == [type |-> "dict", errors |-> <<[detail |-> DetailNull]>>]

WeirdResponses ==
    {[status |-> 200, body |-> BodyOk], [status |-> 400, body |-> BodyCooldown],
     [status |-> 400, body |-> BodyFunds], [status |-> 500, body |-> BodyText],
     [status |-> 400, body |-> BodyNullDetail]}

\* str(body)
StrOf(body) ==
    CASE body.type = "none" -> "None"
      [] body.type = "str" -> body.text
      [] OTHER -> IF body.errors = <<>> THEN "{}" ELSE "{'errors': [...]}"

parse_renew_error(body) ==
    IF body.type = "dict" /\ body.errors # <<>> THEN body.errors[1].detail
    ELSE StrOf(body)

\* The cooldown keywords that occur in the lower-cased error detail.
CooldownKeywordsIn(detail) ==
    CASE detail = "You Can't Renew yet" -> {"can't renew"}
      [] detail = "CANNOT RENEW: Already Renewed" -> {"cannot renew", "already renewed"}
      [] detail = "You can only once at one time period" -> {"can only once at one time period"}
      [] OTHER -> {}

\* Whether error_detail.lower() can be evaluated: the detail is a string.
HasLower(error_detail) == error_detail # DetailNull

cooldown_keywords ==
    {"can only once at one time period", "can't renew", "cannot renew", "already renewed"}

is_cooldown_error(error_detail) == (cooldown_keywords \cap CooldownKeywordsIn(error_detail)) # {}

\* The error text the failure report quotes: the parsed detail for status 400,
\* "HTTP <status> - <body>" for any other status; nothing for the other classes.
weird_report_text(st, body, class) ==
    IF class # "failure" THEN ""
    ELSE IF st = 400 THEN parse_renew_error(body)
    ELSE StrOf(body)

\* The error text the failure report of the retry path quotes.
weird_report_text_retry(body, class) ==
    IF class # "failure" THEN "" ELSE parse_renew_error(body)

\* The branch the result handling of the first attempt takes for a captured
\* (status, body); "raise" when is_cooldown_error raises on a detail that has no
\* lower().
weird_classify(st, body) ==
    IF st \in {200, 201, 204} THEN "success"
    ELSE IF st = 400
    THEN LET error_detail == parse_renew_error(body)
         IN  IF ~HasLower(error_detail) THEN "raise"
             ELSE IF is_cooldown_error(error_detail) THEN "cooldown"
             ELSE "failure"
    ELSE "failure"

\* The branch the result handling of the retry path takes.
weird_classify_retry(st, body) ==
    IF st \in {200, 201, 204} THEN "success"
    ELSE IF st = 400 /\ ~HasLower(parse_renew_error(body)) THEN "raise"
    ELSE IF st = 400 /\ is_cooldown_error(parse_renew_error(body)) THEN "cooldown"
    ELSE "failure"

WeirdInit ==
    [cookie_value |-> "", cookie_name |-> "remember_web_59ba",
     renew_result |-> [captured |-> FALSE, status |-> 0, body |-> BodyNone],
     handlers |-> <<>>, inflight |-> 0, i |-> 0, outcome |-> "none",
     first_wait_captured |-> FALSE, rejected |-> FALSE,
     cf |-> 0, cf_max |-> 0, cf_next |-> "", cf_all_raised |-> TRUE, retries |-> 0,
     read |-> [status |-> 0, body |-> BodyNone],
     extracted |-> [name |-> "None", value |-> ""]]

\* add_server_time: the credential check before the browser is started.
WeirdStart ==
    /\ script = "weird" /\ pc = "start"
    /\ IF weird.cookie_value = ""
       THEN /\ notes' = Append(notes, Note("config", FALSE))
            /\ pc' = "done" /\ status' = "ok"
       ELSE /\ pc' = "launch" /\ UNCHANGED <<notes, status>>
    /\ UNCHANGED <<script, clicks, launched, visited, secrets,
                   castle, kata, lunes, weird, parseIn, parseOut>>

\* Browser launch, context and page: outside the try block.
WeirdLaunch ==
    /\ script = "weird" /\ pc = "launch"
    /\ launched' = launched + 1
    /\ \E ok \in BOOLEAN :
          IF ok THEN pc' = "nav" /\ UNCHANGED status
          ELSE pc' = "done" /\ status' = "crashed"
    /\ UNCHANGED <<script, notes, clicks, visited, secrets,
                   castle, kata, lunes, weird, parseIn, parseOut>>

\* The record of a run that calls wait_for_cloudflare(page, max_wait) and goes on
\* at next when the call returns.
EnterCloudflare(w, max_wait, next) ==
    [w EXCEPT !.cf = 0, !.cf_max = max_wait, !.cf_next = next, !.cf_all_raised = TRUE]

\* One iteration of wait_for_cloudflare.  "clear": no challenge is shown and the
\* function returns True.  "challenge": a challenge is shown, the iteration
\* sleeps a second (an exception of that sleep is caught like any other).
\* "raises": a page query raises and the except clause sleeps a second.
\* "escape": the sleep of the except clause raises as well, which ends the
\* function with that exception.
WeirdCloudflare ==
    /\ script = "weird" /\ pc = "cf"
    /\ weird.cf < weird.cf_max
    /\ \E o \in {"clear", "challenge", "raises", "escape"} :
          CASE o = "clear" ->
                 /\ pc' = weird.cf_next
                 /\ weird' = [weird EXCEPT !.cf = 0, !.cf_all_raised = TRUE]
            [] o = "challenge" ->
                 /\ pc' = pc
                 /\ weird' = [weird EXCEPT !.cf = @ + 1, !.cf_all_raised = FALSE]
            [] o = "raises" ->
                 /\ pc' = pc
                 /\ weird' = [weird EXCEPT !.cf = @ + 1]
            [] OTHER ->
                 /\ pc' = "except"
                 /\ weird' = [weird EXCEPT !.cf = 0, !.cf_all_raised = TRUE]
    /\ UNCHANGED <<script, status, notes, clicks, launched, visited, secrets,
                   castle, kata, lunes, parseIn, parseOut>>

\* wait_for_cloudflare after max_wait iterations: it returns False, which none
\* of its callers acts upon.
WeirdCloudflareTimeout ==
    /\ script = "weird" /\ pc = "cf"
    /\ weird.cf = weird.cf_max
    /\ pc' = weird.cf_next
    /\ weird' = [weird EXCEPT !.cf = 0, !.cf_all_raised = TRUE]
    /\ UNCHANGED <<script, status, notes, clicks, launched, visited, secrets,
                   castle, kata, lunes, parseIn, parseOut>>

\* Cookie injection and navigation, followed by the first challenge wait.
WeirdNavigate ==
    /\ script = "weird" /\ pc = "nav"
    /\ visited' = visited + 1
    /\ \E ok \in BOOLEAN :
          IF ok
          THEN pc' = "cf" /\ weird' = EnterCloudflare(weird, 60, "landed")
          ELSE pc' = "except" /\ UNCHANGED weird
    /\ UNCHANGED <<script, status, notes, clicks, launched, secrets,
                   castle, kata, lunes, parseIn, parseOut>>

\* The remaining waits for the page, and the login check of the URL.
WeirdLanded ==
    /\ script = "weird" /\ pc = "landed"
    /\ \E url \in {"server", "login", "raise"} :
          /\ pc' = CASE url = "server" -> "find"
                     [] url = "login" -> "login"
                     [] OTHER -> "except"
          /\ weird' = [weird EXCEPT !.rejected = (url = "login")]
    /\ UNCHANGED <<script, status, notes, clicks, launched, visited, secrets,
                   castle, kata, lunes, parseIn, parseOut>>

\* Session rejected: screenshot, photo notification, return.
WeirdLoginFailed ==
    /\ script = "weird" /\ pc = "login"
    /\ \E shot \in BOOLEAN :
          IF shot
          THEN /\ notes' = Append(notes, Note("login", TRUE))
               /\ pc' = "finally"
          ELSE /\ pc' = "except"
               /\ UNCHANGED notes
    /\ UNCHANGED <<script, status, clicks, launched, visited, secrets,
                   castle, kata, lunes, weird, parseIn, parseOut>>

\* Look for the renewal button; without it: screenshot, photo notification, return.
WeirdFindButton ==
    /\ script = "weird" /\ pc = "find"
    /\ \E r \in {"found", "absent", "absent_noshot", "raise"} :
          /\ notes' = IF r = "absent" THEN Append(notes, Note("nobutton", TRUE)) ELSE notes
          /\ weird' = [weird EXCEPT !.outcome = IF r \in {"absent", "absent_noshot"}
                                                 THEN "no_button" ELSE @]
          /\ pc' = CASE r = "found" -> "click"
                     [] r = "absent" -> "finally"
                     [] OTHER -> "except"
    /\ UNCHANGED <<script, status, clicks, launched, visited, secrets,
                   castle, kata, lunes, parseIn, parseOut>>

\* Click the renewal button, then wait for the challenge that may follow.
WeirdClick ==
    /\ script = "weird" /\ pc = "click"
    /\ \E r \in {"clicked", "clicked_no_request", "raise"} :
          /\ clicks' = IF r = "raise" THEN clicks
                       ELSE Append(clicks, [script |-> "weird", what |-> "renew"])
          /\ weird' = IF r = "raise" THEN weird
                       ELSE EnterCloudflare([weird EXCEPT !.inflight = IF r = "clicked" THEN @ + 1 ELSE @,
                                                          !.i = 0], 60, "poll1")
          /\ pc' = IF r = "raise" THEN "except" ELSE "cf"
    /\ UNCHANGED <<script, status, notes, launched, visited, secrets,
                   castle, kata, lunes, parseIn, parseOut>>

\* capture_response up to its await: captured and status are set, the body is
\* still being fetched.
WeirdCaptureResponse ==
    /\ script = "weird" /\ pc \in {"cf", "poll1", "report1", "reload", "retry", "poll2", "cookie"}
    /\ weird.inflight > 0
    /\ \E resp \in WeirdResponses :
          weird' = [weird EXCEPT
                      !.inflight = @ - 1,
                      !.renew_result = [@ EXCEPT !.captured = TRUE, !.status = resp.status],
                      !.handlers = Append(@, resp.body)]
    /\ UNCHANGED <<script, pc, status, notes, clicks, launched, visited, secrets,
                   castle, kata, lunes, parseIn, parseOut>>

\* capture_response after its await: one pending handler stores its body.
WeirdCaptureBody ==
    /\ script = "weird" /\ pc \in {"cf", "poll1", "report1", "reload", "retry", "poll2", "cookie"}
    /\ \E k \in 1..Len(weird.handlers) :
          weird' = [weird EXCEPT
                      !.renew_result = [@ EXCEPT !.body = weird.handlers[k]],
                      !.handlers = SubSeq(@, 1, k - 1) \o SubSeq(@, k + 1, Len(@))]
    /\ UNCHANGED <<script, pc, status, notes, clicks, launched, visited, secrets,
                   castle, kata, lunes, parseIn, parseOut>>

\* One iteration of an API wait loop that has not seen a response yet.
WeirdPoll ==
    /\ script = "weird" /\ pc \in {"poll1", "poll2"}
    /\ ~weird.renew_result.captured
    /\ weird.i < ApiWaitIters
    /\ weird' = [weird EXCEPT !.i = @ + 1]
    /\ UNCHANGED <<script, pc, status, notes, clicks, launched, visited, secrets,
                   castle, kata, lunes, parseIn, parseOut>>

\* The else branch of "if renew_result['captured']": the reload-and-retry round
\* (the variant retries whatever the first wait saw).
weird_retry_always(captured) == TRUE

weird_retry_needed(captured) == ~captured

\* Result handling after the first wait.  A success reloads the page and waits
\* for a challenge before it is reported; the other classes are reported at once.
WeirdClassify1 ==
    /\ script = "weird" /\ pc = "poll1"
    /\ weird.renew_result.captured \/ weird.i = ApiWaitIters
    /\ IF ~weird_retry_needed(weird.renew_result.captured)
       THEN LET class == weird_classify(weird.renew_result.status, weird.renew_result.body)
                seen == [weird EXCEPT !.read = [status |-> weird.renew_result.status,
                                                body |-> weird.renew_result.body]]
            IN  IF class = "success"
                THEN \E reload \in BOOLEAN :
                        /\ UNCHANGED notes
                        /\ IF reload
                           THEN /\ pc' = "cf"
                                /\ weird' = EnterCloudflare(
                                       [seen EXCEPT !.outcome = class,
                                                     !.first_wait_captured = TRUE], 30, "report1")
                           ELSE /\ pc' = "except"
                                /\ weird' = [seen EXCEPT !.outcome = class,
                                                          !.first_wait_captured = TRUE]
                ELSE IF class = "raise"
                THEN /\ weird' = [seen EXCEPT !.first_wait_captured = TRUE]
                     /\ pc' = "except" /\ UNCHANGED notes
                ELSE /\ weird' = [seen EXCEPT !.outcome = class, !.first_wait_captured = TRUE]
                     /\ notes' = Append(notes, NoteT(class, FALSE,
                                        weird_report_text(weird.renew_result.status,
                                                          weird.renew_result.body, class)))
                     /\ pc' = "cookie"
       ELSE /\ pc' = "reload"
            /\ weird' = [weird EXCEPT !.first_wait_captured = weird.renew_result.captured]
            /\ UNCHANGED notes
    /\ UNCHANGED <<script, status, clicks, launched, visited, secrets,
                   castle, kata, lunes, parseIn, parseOut>>

\* The success report of the first attempt: the new expiry is read from the
\* reloaded page and the text notification is sent.
WeirdReport1 ==
    /\ script = "weird" /\ pc = "report1"
    /\ \E ok \in BOOLEAN :
          IF ok
          THEN /\ notes' = Append(notes, NoteT("success", FALSE, ""))
               /\ pc' = "cookie"
          ELSE /\ pc' = "except" /\ UNCHANGED notes
    /\ UNCHANGED <<script, status, clicks, launched, visited, secrets,
                   castle, kata, lunes, weird, parseIn, parseOut>>

\* No response after the first wait: the one reload of the retry round, followed
\* by a challenge wait.
WeirdReload ==
    /\ script = "weird" /\ pc = "reload"
    /\ \E ok \in BOOLEAN :
          IF ok
          THEN /\ pc' = "cf"
               /\ weird' = EnterCloudflare([weird EXCEPT !.retries = @ + 1], 60, "retry")
          ELSE /\ pc' = "except"
               /\ weird' = [weird EXCEPT !.retries = @ + 1]
    /\ UNCHANGED <<script, status, notes, clicks, launched, visited, secrets,
                   castle, kata, lunes, parseIn, parseOut>>

\* The retry round after the reload: look for the button again and click it once
\* more; without the button the "no response" report follows at once.
WeirdRetry ==
    /\ script = "weird" /\ pc = "retry"
    /\ \E r \in {"raise", "absent", "clicked", "clicked_no_request"}, shot \in BOOLEAN :
          /\ (r # "absent" \/ weird.renew_result.captured) => shot
          /\ IF r = "raise"
             THEN pc' = "except" /\ UNCHANGED <<clicks, notes, weird>>
             ELSE IF r = "absent"
             THEN /\ UNCHANGED clicks
                  /\ IF weird.renew_result.captured
                     THEN /\ pc' = "cookie" /\ UNCHANGED notes
                          /\ weird' = [weird EXCEPT !.outcome = "late_response_unreported"]
                     ELSE IF shot
                     THEN /\ notes' = Append(notes, Note("manual", TRUE))
                          /\ weird' = [weird EXCEPT !.outcome = "no_response"]
                          /\ pc' = "cookie"
                     ELSE /\ pc' = "except" /\ UNCHANGED <<notes, weird>>
             ELSE /\ clicks' = Append(clicks, [script |-> "weird", what |-> "renew"])
                  /\ weird' = EnterCloudflare(
                         [weird EXCEPT !.inflight = IF r = "clicked" THEN @ + 1 ELSE @,
                                       !.i = 0], 60, "poll2")
                  /\ pc' = "cf"
                  /\ UNCHANGED notes
    /\ UNCHANGED <<script, status, launched, visited, secrets,
                   castle, kata, lunes, parseIn, parseOut>>

\* What follows a second wait that saw no response: the "no response" report
\* (the variant starts another reload round).
weird_after_retry_wait_again == "reload"

weird_after_retry_wait == "report"

\* Result handling after the second wait, and the "no response" report.
WeirdClassify2 ==
    /\ script = "weird" /\ pc = "poll2"
    /\ weird.renew_result.captured \/ weird.i = ApiWaitIters
    /\ IF weird.renew_result.captured
       THEN LET class == weird_classify_retry(weird.renew_result.status, weird.renew_result.body)
                seen == [weird EXCEPT !.read = [status |-> weird.renew_result.status,
                                                body |-> weird.renew_result.body]]
            IN  IF class = "raise"
                THEN pc' = "except" /\ weird' = seen /\ UNCHANGED notes
                ELSE /\ weird' = [seen EXCEPT !.outcome = class]
                     /\ notes' = Append(notes, NoteT(class, FALSE,
                                        weird_report_text_retry(weird.renew_result.body, class)))
                     /\ pc' = "cookie"
       ELSE \E shot \in BOOLEAN :
               IF weird_after_retry_wait = "reload"
               THEN /\ pc' = "reload" /\ UNCHANGED <<notes, weird>>
               ELSE IF shot
               THEN /\ notes' = Append(notes, Note("manual", TRUE))
                    /\ weird' = [weird EXCEPT !.outcome = "no_response"]
                    /\ pc' = "cookie"
               ELSE /\ pc' = "except" /\ UNCHANGED <<notes, weird>>
    /\ UNCHANGED <<script, status, clicks, launched, visited, secrets,
                   castle, kata, lunes, parseIn, parseOut>>

\* What extract_remember_cookie can return: (None, None), or the name and value
\* of the first remember_web* cookie of the context.
WeirdExtracted(w) ==
    {[name |-> "None", value |-> ""],
     [name |-> w.cookie_name, value |-> w.cookie_value],
     [name |-> w.cookie_name, value |-> "v2"],
     [name |-> "remember_web_77aa", value |-> "v2"]}

\* The test that decides whether the cookie is written back.
weird_cookie_rotated(new_value, cookie_value) == new_value # "" /\ new_value # cookie_value

\* Step 8: write a rotated cookie back to the secret store.
WeirdUpdateCookie ==
    /\ script = "weird" /\ pc = "cookie"
    /\ \E got \in WeirdExtracted(weird), ok1 \in BOOLEAN, ok2 \in BOOLEAN :
          /\ weird' = [weird EXCEPT !.extracted = got]
          /\ IF weird_cookie_rotated(got.value, weird.cookie_value)
             THEN IF got.name # weird.cookie_name
                  THEN secrets' = Append2(secrets,
                           [name |-> "REMEMBER_WEB_COOKIE", value |-> got.value, ok |-> ok1],
                           [name |-> "REMEMBER_WEB_COOKIE_NAME", value |-> got.name, ok |-> ok2])
                  ELSE /\ ok2
                       /\ secrets' = Append(secrets,
                           [name |-> "REMEMBER_WEB_COOKIE", value |-> got.value, ok |-> ok1])
             ELSE /\ ok1 /\ ok2
                  /\ UNCHANGED secrets
    /\ pc' = "finally"
    /\ UNCHANGED <<script, status, notes, clicks, launched, visited,
                   castle, kata, lunes, parseIn, parseOut>>

\* except Exception: photo of the page when it can be taken, then the text report.
WeirdExcept ==
    /\ script = "weird" /\ pc = "except"
    /\ \E shot \in BOOLEAN :
          notes' = IF shot
                   THEN Append2(notes, Note("exception", TRUE), Note("exception", FALSE))
                   ELSE Append(notes, Note("exception", FALSE))
    /\ pc' = "finally"
    /\ UNCHANGED <<script, status, clicks, launched, visited, secrets,
                   castle, kata, lunes, weird, parseIn, parseOut>>

\* finally: close the context and the browser; add_server_time returns.
WeirdFinally ==
    /\ script = "weird" /\ pc = "finally"
    /\ pc' = "done" /\ status' = "ok"
    /\ UNCHANGED <<script, notes, clicks, launched, visited, secrets,
                   castle, kata, lunes, weird, parseIn, parseOut>>

WeirdNext ==
    \/ WeirdStart \/ WeirdLaunch \/ WeirdNavigate \/ WeirdCloudflare \/ WeirdCloudflareTimeout
    \/ WeirdLanded \/ WeirdLoginFailed \/ WeirdFindButton
    \/ WeirdClick \/ WeirdCaptureResponse \/ WeirdCaptureBody \/ WeirdPoll
    \/ WeirdClassify1 \/ WeirdReport1 \/ WeirdReload \/ WeirdRetry \/ WeirdClassify2
    \/ WeirdUpdateCookie
    \/ WeirdExcept \/ WeirdFinally

(***************************************************************************)
(* Lunes-Host.                                                             *)
(***************************************************************************)
SessionEq == <<"s", "e", "s", "s", "i", "o", "n", "=">>

\* Cookie strings an account can be configured with (already split and stripped
\* by Config.from_env, hence non-empty).
LunesCookieInputs ==
    {SessionEq \o <<"1">>, <<"x">>}

\* Server lists get_servers can scrape.
LunesServerLists ==
    {<<[server_id |-> 1, is_active |-> TRUE]>>,
     <<[server_id |-> 1, is_active |-> FALSE], [server_id |-> 2, is_active |-> FALSE]>>}

\* What the provider does to the context's cookies during the session.
LunesJarEvents ==
    {[op |-> "none"],
     [op |-> "set", name |-> <<"s", "e", "s", "s", "i", "o", "n">>, value |-> <<"2">>,
      domain |-> ".lunes.host"],
     [op |-> "set", name |-> <<"s", "e", "s", "s", "i", "o", "n">>, value |-> <<"2">>,
      domain |-> "ctrl.lunes.host"],
     [op |-> "set", name |-> <<"t">>, value |-> <<"9">>, domain |-> "betadash.lunes.host"],
     [op |-> "set", name |-> <<"t">>, value |-> <<"9">>, domain |-> "other.example"],
     [op |-> "reset", name |-> <<"t">>, value |-> <<"9">>, domain |-> "betadash.lunes.host"]}

\* The cookie jar after a Set-Cookie: an existing (name, domain) cookie is
\* replaced in place, a new one is added at the end.  "reset" is the provider
\* expiring every cookie of the jar and setting a new one.
JarAfter(jar, ev) ==
    IF ev.op = "none" THEN jar
    ELSE LET c == [name |-> ev.name, value |-> ev.value, domain |-> ev.domain, path |-> "/"]
         IN  IF ev.op = "reset" THEN <<c>>
             ELSE IF \E i \in 1..Len(jar) : jar[i].name = ev.name /\ jar[i].domain = ev.domain
             THEN [i \in 1..Len(jar) |->
                     IF jar[i].name = ev.name /\ jar[i].domain = ev.domain THEN c ELSE jar[i]]
             ELSE Append(jar, c)

\* "lunes.host" in c["domain"]
IsLunesDomain(d) == d \in {".lunes.host", "betadash.lunes.host", "ctrl.lunes.host"}

\* The dict lunes_cookies of extract_cookies as a sequence of (name, value) in
\* insertion order: a later cookie of the same name overwrites the value.
RECURSIVE lunes_cookie_dict(_, _)
lunes_cookie_dict(jar, acc) ==
    IF jar = <<>> THEN acc
    ELSE LET c == Head(jar)
         IN  IF ~IsLunesDomain(c.domain) THEN lunes_cookie_dict(Tail(jar), acc)
             ELSE IF \E i \in 1..Len(acc) : acc[i].name = c.name
             THEN lunes_cookie_dict(Tail(jar),
                     [i \in 1..Len(acc) |->
                        IF acc[i].name = c.name THEN [name |-> c.name, value |-> c.value]
                        ELSE acc[i]])
             ELSE lunes_cookie_dict(Tail(jar), Append(acc, [name |-> c.name, value |-> c.value]))

\* LunesClient.extract_cookies: (cookie_str, has_cookie).
extract_cookies(jar) ==
    LET d == lunes_cookie_dict(jar, <<>>)
    IN  IF d # <<>>
        THEN <<join([i \in 1..Len(d) |-> d[i].name \o <<"=">> \o d[i].value], <<";", " ">>), TRUE>>
        ELSE <<<<>>, FALSE>>

\* re.search(r'session=([^;]+)', s): <<>> when there is no match, <<group 1>> otherwise.
session_search(s) ==
    LET starts == {p \in 1..Len(s) :
                     /\ p + 8 <= Len(s)
                     /\ SubSeq(s, p, p + 7) = SessionEq
                     /\ s[p + 8] # ";"}
    IN  IF starts = {} THEN <<>>
        ELSE LET p == CHOOSE q \in starts : \A r \in starts : q <= r
                 stop == IF \E e \in (p + 8)..Len(s) : s[e] = ";"
                         THEN (CHOOSE e \in (p + 8)..Len(s) :
                                  s[e] = ";" /\ \A f \in (p + 8)..(e - 1) : s[f] # ";") - 1
                         ELSE Len(s)
             IN  <<SubSeq(s, p + 8, stop)>>

\* The comparison of process_account as the whole-string test.
cookie_compare_whole(cookie_str, new_cookie, has_cookie) ==
    IF has_cookie /\ new_cookie # <<>>
    THEN [cookie_changed |-> new_cookie # cookie_str, new_cookie |-> new_cookie]
    ELSE [cookie_changed |-> FALSE, new_cookie |-> cookie_str]

\* process_account, lines 378-397: cookie_changed and new_cookie of the result.
cookie_compare(cookie_str, new_cookie, has_cookie) ==
    IF has_cookie /\ new_cookie # <<>>
    THEN LET old_session == session_search(cookie_str)
             new_session == session_search(new_cookie)
         IN  IF old_session # <<>> /\ new_session # <<>>
             THEN IF old_session[1] # new_session[1]
                  THEN [cookie_changed |-> TRUE, new_cookie |-> new_cookie]
                  ELSE [cookie_changed |-> FALSE, new_cookie |-> cookie_str]
             ELSE [cookie_changed |-> new_cookie # cookie_str, new_cookie |-> new_cookie]
    ELSE [cookie_changed |-> FALSE, new_cookie |-> cookie_str]

AccountResult(index) ==
    [index |-> index, servers |-> <<>>, started |-> <<>>, cookie_changed |-> FALSE,
     new_cookie |-> <<>>, error |-> ""]

LunesInit ==
    [cookies_list |-> <<>>, idx |-> 0, results |-> <<>>, result |-> AccountResult(0),
     jar |-> <<>>, extracted |-> <<>>, k |-> 0, open |-> FALSE, processed |-> <<>>,
     rejected |-> {}, launchedFor |-> {}, visitedFor |-> {}, delays |-> <<>>]

\* main: configuration check.
LunesMain ==
    /\ script = "lunes" /\ pc = "main"
    /\ IF lunes.cookies_list = <<>>
       THEN pc' = "done" /\ status' = "ok" /\ UNCHANGED lunes
       ELSE pc' = "account" /\ lunes' = [lunes EXCEPT !.idx = 1] /\ UNCHANGED status
    /\ UNCHANGED <<script, notes, clicks, launched, visited, secrets,
                   castle, kata, weird, parseIn, parseOut>>

\* Early return of process_account without cookies.
lunes_no_cookies(cookies) == cookies = <<>>

\* process_account up to the browser launch.
LunesProcessAccount ==
    /\ script = "lunes" /\ pc = "account"
    /\ LET cookies == parse_cookies(lunes.cookies_list[lunes.idx])
           r == AccountResult(lunes.idx)
       IN  IF lunes_no_cookies(cookies)
           THEN /\ lunes' = [lunes EXCEPT !.result = [r EXCEPT !.error = "cookie_parse"],
                                          !.jar = <<>>, !.extracted = <<>>,
                                          !.processed = Append(@, lunes.idx)]
                /\ pc' = "collect"
           ELSE /\ lunes' = [lunes EXCEPT !.result = r, !.jar = cookies, !.extracted = <<>>,
                                          !.processed = Append(@, lunes.idx)]
                /\ pc' = "launch"
    /\ UNCHANGED <<script, status, notes, clicks, launched, visited, secrets,
                   castle, kata, weird, parseIn, parseOut>>

\* Where an exception of the set-up code ends: it is raised before the try block
\* of process_account and main does not catch it.
lunes_setup_failure == "done"

\* Browser launch, context, cookie injection and page creation.
LunesLaunch ==
    /\ script = "lunes" /\ pc = "launch"
    /\ launched' = launched + 1
    /\ \E ok \in BOOLEAN :
          IF ok
          THEN /\ pc' = "servers" /\ UNCHANGED status
               /\ lunes' = [lunes EXCEPT !.open = TRUE, !.launchedFor = @ \cup {lunes.idx}]
          ELSE /\ pc' = lunes_setup_failure
               /\ status' = IF lunes_setup_failure = "done" THEN "crashed" ELSE status
               /\ lunes' = [lunes EXCEPT
                              !.launchedFor = @ \cup {lunes.idx},
                              !.result = IF lunes_setup_failure = "done" THEN @
                                         ELSE [@ EXCEPT !.error = "exception"]]
    /\ UNCHANGED <<script, notes, clicks, visited, secrets,
                   castle, kata, weird, parseIn, parseOut>>

\* get_servers and the empty-list check of process_account.
LunesGetServers ==
    /\ script = "lunes" /\ pc = "servers"
    /\ visited' = visited + 1
    /\ \E url \in {"login", "dashboard"}, servers \in LunesServerLists \cup {<<>>} :
          /\ (url = "login") => servers = <<>>
          /\ IF servers = <<>>
             THEN /\ lunes' = [lunes EXCEPT
                                  !.result.error =
                                     IF url = "login" THEN "cookie_expired" ELSE "no_servers",
                                  !.rejected = IF url = "login" THEN @ \cup {lunes.idx} ELSE @,
                                  !.visitedFor = @ \cup {lunes.idx}]
                  /\ pc' = "close"
             ELSE /\ lunes' = [lunes EXCEPT !.result.servers = servers, !.k = 1,
                                            !.visitedFor = @ \cup {lunes.idx}]
                  /\ pc' = "start"
    /\ UNCHANGED <<script, status, notes, clicks, launched, secrets,
                   castle, kata, weird, parseIn, parseOut>>

\* One iteration of the server loop: start_server for a server that is not active.
LunesStartServer ==
    /\ script = "lunes" /\ pc = "start"
    /\ lunes.k <= Len(lunes.result.servers)
    /\ LET server == lunes.result.servers[lunes.k]
       IN  IF server.is_active
           THEN /\ lunes' = [lunes EXCEPT !.k = @ + 1]
                /\ UNCHANGED <<clicks, visited>>
           ELSE /\ visited' = visited + 1
                /\ \E r \in {"raise", "no_button", "disabled", "started", "clicked_raise"} :
                      /\ clicks' = IF r \in {"started", "clicked_raise"}
                                   THEN Append(clicks, [script |-> "lunes", what |-> "start",
                                                        account |-> lunes.idx,
                                                        server |-> server.server_id])
                                   ELSE clicks
                      /\ lunes' = [lunes EXCEPT
                                     !.k = @ + 1,
                                     !.result.started =
                                        IF r = "started" THEN Append(@, server.server_id) ELSE @]
    /\ UNCHANGED <<script, pc, status, notes, launched, secrets,
                   castle, kata, weird, parseIn, parseOut>>

\* After the loop: extract the cookies of the context and compare.
LunesExtractCookies ==
    /\ script = "lunes" /\ pc = "start"
    /\ lunes.k > Len(lunes.result.servers)
    /\ \E ev \in LunesJarEvents, readable \in BOOLEAN :
          LET jar2 == JarAfter(lunes.jar, ev)
              got == IF readable THEN extract_cookies(jar2) ELSE <<<<>>, FALSE>>
              cmp == cookie_compare(lunes.cookies_list[lunes.idx], got[1], got[2])
          IN  lunes' = [lunes EXCEPT !.jar = jar2, !.extracted = got[1],
                                     !.result.cookie_changed = cmp.cookie_changed,
                                     !.result.new_cookie = cmp.new_cookie]
    /\ pc' = "close"
    /\ UNCHANGED <<script, status, notes, clicks, launched, visited, secrets,
                   castle, kata, weird, parseIn, parseOut>>

\* finally: close the context and the browser; process_account returns.
LunesClose ==
    /\ script = "lunes" /\ pc = "close"
    /\ lunes' = [lunes EXCEPT !.open = FALSE, !.jar = <<>>, !.extracted = <<>>, !.k = 0]
    /\ pc' = "collect"
    /\ UNCHANGED <<script, status, notes, clicks, launched, visited, secrets,
                   castle, kata, weird, parseIn, parseOut>>

\* main's loop body after process_account: keep the result, go to the next account.
\* The five-second pause of main's loop: after every account but the last (the
\* variant pauses after the last one too).
lunes_delay_after_every(idx, n) == TRUE

lunes_delay_after(idx, n) == idx < n

LunesCollect ==
    /\ script = "lunes" /\ pc = "collect"
    /\ LET n == Len(lunes.cookies_list)
           slept == IF lunes_delay_after(lunes.idx, n)
                    THEN Append(lunes.delays, lunes.idx) ELSE lunes.delays
       IN  IF lunes.idx < n
           THEN /\ lunes' = [lunes EXCEPT !.results = Append(@, lunes.result),
                                          !.idx = @ + 1, !.delays = slept]
                /\ pc' = "account"
           ELSE /\ lunes' = [lunes EXCEPT !.results = Append(@, lunes.result),
                                          !.delays = slept]
                /\ pc' = "summary"
    /\ UNCHANGED <<script, status, notes, clicks, launched, visited, secrets,
                   castle, kata, weird, parseIn, parseOut>>

RECURSIVE LunesPhotos(_)
LunesPhotos(results) ==
    IF results = <<>> THEN <<>>
    ELSE [j \in 1..Len(Head(results).started) |-> Note("started", TRUE)]
         \o LunesPhotos(Tail(results))

\* The servers the summary marks as started, as pairs of account index and
\* server id: for an account without error, its listed servers found in started.
lunes_started_marks(results) ==
    UNION {{<<results[j].index, results[j].servers[n].server_id>> :
               n \in {m \in 1..Len(results[j].servers) :
                         \E t \in 1..Len(results[j].started) :
                            results[j].started[t] = results[j].servers[m].server_id}} :
           j \in {a \in 1..Len(results) : results[a].error = ""}}

\* The summary message, then one photo per started server.
LunesSummary ==
    /\ script = "lunes" /\ pc = "summary"
    /\ notes' = Append(notes, [kind |-> "summary", photo |-> FALSE,
                               errors |-> [j \in 1..Len(lunes.results) |-> lunes.results[j].error],
                               started |-> lunes_started_marks(lunes.results)])
                \o LunesPhotos(lunes.results)
    /\ pc' = "secret"
    /\ UNCHANGED <<script, status, clicks, launched, visited, secrets,
                   castle, kata, lunes, weird, parseIn, parseOut>>

\* Write LUNES_COOKIES back when some account's cookie changed.
LunesUpdateSecret ==
    /\ script = "lunes" /\ pc = "secret"
    /\ IF \E j \in 1..Len(lunes.results) : lunes.results[j].cookie_changed
       THEN secrets' = Append(secrets,
               [name |-> "LUNES_COOKIES",
                value |-> [j \in 1..Len(lunes.results) |->
                             IF lunes.results[j].new_cookie # <<>>
                             THEN lunes.results[j].new_cookie
                             ELSE lunes.cookies_list[j]]])
       ELSE UNCHANGED secrets
    /\ pc' = "done" /\ status' = "ok"
    /\ UNCHANGED <<script, notes, clicks, launched, visited,
                   castle, kata, lunes, weird, parseIn, parseOut>>

LunesNext ==
    \/ LunesMain \/ LunesProcessAccount \/ LunesLaunch \/ LunesGetServers
    \/ LunesStartServer \/ LunesExtractCookies \/ LunesClose \/ LunesCollect
    \/ LunesSummary \/ LunesUpdateSecret

(***************************************************************************)
(* The parsing specification: draw an input, apply one of the parsers.     *)
(***************************************************************************)
ParseInit ==
    /\ script = "parse" /\ pc = "parse" /\ status = "running"
    /\ notes = <<>> /\ clicks = <<>> /\ launched = 0 /\ visited = 0
    /\ secrets = <<>>
    /\ castle = Idle /\ kata = Idle /\ lunes = Idle /\ weird = Idle
    /\ parseIn \in ParseInputs
    /\ parseOut = NoParse

ApplyCastleParse ==
    /\ script = "parse" /\ parseOut.fn = "none"
    /\ parseOut' = [fn |-> "castle", cookies |-> parse_cookie_string(parseIn)]
    /\ UNCHANGED <<procVars, parseIn>>

ApplyLunesParse ==
    /\ script = "parse" /\ parseOut.fn = "none"
    /\ parseOut' = [fn |-> "lunes", cookies |-> parse_cookies(parseIn)]
    /\ UNCHANGED <<procVars, parseIn>>

ParseNext == ApplyCastleParse \/ ApplyLunesParse

SpecParse == ParseInit /\ [][ParseNext]_vars


(***************************************************************************)
(* The date helpers applied to date texts: KataBump's days_until and       *)
(* Castle-Host's parse_date and calculate_date_difference.                 *)
(***************************************************************************)
\* How a page can write a date: the three formats of the scripts, the same day
\* written with slashes or after a word, a two-digit year, and texts without a
\* date.
DateStyles == {"iso", "dot", "cjk", "slash", "worded", "short"}

DateWritings ==
    [style : DateStyles, d : {1, 29, 31}, m : {2, 12, 13}, y : {2027, 2028}]
    \cup [style : {"unknown", "two", "None"}, d : {1}, m : {2}, y : {2027}]

\* The text of a writing.
DateText(w) ==
    CASE w.style = "iso" -> <<Num(w.y, 4), Sep("-"), Num(w.m, 2), Sep("-"), Num(w.d, 2)>>
      [] w.style = "dot" -> <<Num(w.d, 2), Sep("."), Num(w.m, 2), Sep("."), Num(w.y, 4)>>
      [] w.style = "cjk" -> <<Num(w.y, 4), Sep("nian"), Num(w.m, 2), Sep("yue"), Num(w.d, 2), Sep("ri")>>
      [] w.style = "slash" -> <<Num(w.d, 2), Sep("/"), Num(w.m, 2), Sep("/"), Num(w.y, 4)>>
      [] w.style = "worded" -> <<Sep("until "), Num(w.d, 2), Sep("."), Num(w.m, 2), Sep("."), Num(w.y, 4)>>
      [] w.style = "short" -> <<Num(w.d, 2), Sep("."), Num(w.m, 2), Sep("."), Num(w.y % 100, 2)>>
      [] w.style = "two" -> <<Num(w.d, 2), Sep("."), Num(w.m, 2)>>
      [] w.style = "None" -> NoneStr
      [] OTHER -> <<Sep("unknown")>>

DateTodays == {[tag |-> "date", y |-> 2027, m |-> 12, d |-> 31],
               [tag |-> "date", y |-> 2028, m |-> 3, d |-> 1]}

DateSeconds == {w \in DateWritings :
                   \/ w.style = "unknown"
                   \/ w.style = "dot" /\ w.y = 2028 /\ w.m = 2 /\ w.d \in {1, 29}
                   \/ w.style = "slash" /\ w.y = 2027 /\ w.m = 2 /\ w.d = 29}

DatesInit ==
    /\ script = "dates" /\ pc = "dates" /\ status = "running"
    /\ notes = <<>> /\ clicks = <<>> /\ launched = 0 /\ visited = 0
    /\ secrets = <<>>
    /\ castle = Idle /\ kata = Idle /\ lunes = Idle /\ weird = Idle
    /\ parseIn \in [a : DateWritings, b : DateSeconds, today : DateTodays]
    /\ parseOut = NoParse

ApplyDaysUntil ==
    /\ script = "dates" /\ parseOut.fn = "none"
    /\ parseOut' = [fn |-> "days_until", days |-> days_until(DateText(parseIn.a), parseIn.today)]
    /\ UNCHANGED <<procVars, parseIn>>

ApplyParseDate ==
    /\ script = "dates" /\ parseOut.fn = "none"
    /\ parseOut' = [fn |-> "parse_date", date |-> parse_date(DateText(parseIn.a))]
    /\ UNCHANGED <<procVars, parseIn>>

ApplyDateDifference ==
    /\ script = "dates" /\ parseOut.fn = "none"
    /\ parseOut' = [fn |-> "calculate_date_difference",
                    diff |-> calculate_date_difference(DateText(parseIn.a), DateText(parseIn.b))]
    /\ UNCHANGED <<procVars, parseIn>>

DatesNext == ApplyDaysUntil \/ ApplyParseDate \/ ApplyDateDifference

SpecDates == DatesInit /\ [][DatesNext]_vars


(***************************************************************************)
(* The Weirdhost result handling applied to a captured (status, body): the *)
(* branch of the first attempt and the branch of the retry path.           *)
(***************************************************************************)
ClassifyStatuses == {200, 201, 204, 400, 401, 404, 429, 500}

ClassifyBodies ==
    {BodyNone, BodyOk, BodyCooldown, BodyFunds, BodyText, BodyNullDetail,
     [type |-> "dict", errors |-> <<[detail |-> "CANNOT RENEW: Already Renewed"]>>],
     [type |-> "dict", errors |-> <<[detail |-> "You can only once at one time period"]>>],
     [type |-> "str", text |-> "You Can't Renew yet"]}

ClassifyInit ==
    /\ script = "classify" /\ pc = "classify" /\ status = "running"
    /\ notes = <<>> /\ clicks = <<>> /\ launched = 0 /\ visited = 0
    /\ secrets = <<>>
    /\ castle = Idle /\ kata = Idle /\ lunes = Idle /\ weird = Idle
    /\ parseIn \in [status : ClassifyStatuses, body : ClassifyBodies]
    /\ parseOut = NoParse

ApplyClassify ==
    /\ script = "classify" /\ parseOut.fn = "none"
    /\ parseOut' = [fn |-> "first", class |-> weird_classify(parseIn.status, parseIn.body)]
    /\ UNCHANGED <<procVars, parseIn>>

ApplyClassifyRetry ==
    /\ script = "classify" /\ parseOut.fn = "none"
    /\ parseOut' = [fn |-> "retry", class |-> weird_classify_retry(parseIn.status, parseIn.body)]
    /\ UNCHANGED <<procVars, parseIn>>

ClassifyNext == ApplyClassify \/ ApplyClassifyRetry

SpecClassify == ClassifyInit /\ [][ClassifyNext]_vars


(***************************************************************************)
(* The secret-store update: GitHubManager.update_secret of Lunes-Host and  *)
(* update_github_secret of Weirdhost.  parseIn holds the configuration,    *)
(* parseOut the call: its position, the requests it has issued with their  *)
(* responses, the public-key data it holds and its return value.           *)
(***************************************************************************)
\* The secrets each script writes.
SecretNames(variant) ==
    IF variant = "lunes" THEN {"LUNES_COOKIES"}
    ELSE {"REMEMBER_WEB_COOKIE", "REMEMBER_WEB_COOKIE_NAME"}

SecretConfigs ==
    {c \in [variant : {"lunes", "weird"}, token : BOOLEAN, repository : BOOLEAN,
            nacl : BOOLEAN,
            name : {"LUNES_COOKIES", "REMEMBER_WEB_COOKIE", "REMEMBER_WEB_COOKIE_NAME"}] :
        c.name \in SecretNames(c.variant)}

SecretCall(at) == [fn |-> "update_secret", at |-> at, http |-> <<>>, key_id |-> "", ret |-> "none"]

\* The function returns v.
SecretReturn(call, v) == [call EXCEPT !.at = "returned", !.ret = v]

SecretInit ==
    /\ script = "secret" /\ pc = "secret" /\ status = "running"
    /\ notes = <<>> /\ clicks = <<>> /\ launched = 0 /\ visited = 0
    /\ secrets = <<>>
    /\ castle = Idle /\ kata = Idle /\ lunes = Idle /\ weird = Idle
    /\ parseIn \in SecretConfigs
    /\ parseOut = SecretCall("check")

\* The configuration test: Weirdhost also requires PyNaCl here.
SecretCheck ==
    /\ script = "secret" /\ parseOut.at = "check"
    /\ parseOut' =
          IF ~parseIn.token \/ ~parseIn.repository \/ (parseIn.variant = "weird" /\ ~parseIn.nacl)
          THEN SecretReturn(parseOut, "False")
          ELSE [parseOut EXCEPT !.at = IF parseIn.variant = "lunes" THEN "import" ELSE "get"]
    /\ UNCHANGED <<procVars, parseIn>>

\* Lunes-Host imports nacl inside its try block: ImportError gives False.
SecretImport ==
    /\ script = "secret" /\ parseOut.at = "import"
    /\ parseOut' = IF parseIn.nacl THEN [parseOut EXCEPT !.at = "get"]
                   ELSE SecretReturn(parseOut, "False")
    /\ UNCHANGED <<procVars, parseIn>>

\* The variant that goes on to the PUT whatever the GET returned.
secret_get_ok_any(get_status) == TRUE

\* The test of the public-key response.
secret_get_ok(get_status) == get_status = 200

\* The public-key GET.  st = 0 stands for a request that raises; json = FALSE
\* for a body that cannot be decoded.
SecretGet ==
    /\ script = "secret" /\ parseOut.at = "get"
    /\ \E st \in {0, 200, 401, 404, 500}, kid \in {"k1", "k2"}, json \in BOOLEAN :
          /\ (st # 200) => (kid = "k1" /\ json)
          /\ LET sent == [parseOut EXCEPT
                            !.http = Append(@, [method |-> "GET", status |-> st, name |-> "public-key",
                                                key_id |-> IF st = 200 /\ json THEN kid ELSE ""])]
             IN  parseOut' =
                   IF st = 0 THEN SecretReturn(sent, "False")
                   ELSE IF ~secret_get_ok(st) THEN SecretReturn(sent, "False")
                   ELSE IF ~json THEN SecretReturn(sent, "False")
                   ELSE [sent EXCEPT !.at = "encrypt", !.key_id = IF st = 200 THEN kid ELSE ""]
    /\ UNCHANGED <<procVars, parseIn>>

\* Sealing the value with the public key; a malformed key raises.
SecretEncrypt ==
    /\ script = "secret" /\ parseOut.at = "encrypt"
    /\ \E ok \in BOOLEAN :
          parseOut' = IF ok THEN [parseOut EXCEPT !.at = "put"]
                      ELSE SecretReturn(parseOut, "False")
    /\ UNCHANGED <<procVars, parseIn>>

\* The PUT of the encrypted secret with the key_id of the public-key data.
SecretPut ==
    /\ script = "secret" /\ parseOut.at = "put"
    /\ \E st \in {0, 201, 204, 403, 422} :
          LET sent == [parseOut EXCEPT
                         !.http = Append(@, [method |-> "PUT", status |-> st, name |-> parseIn.name,
                                             key_id |-> parseOut.key_id])]
          IN  parseOut' = SecretReturn(sent, IF st \in {201, 204} THEN "True" ELSE "False")
    /\ UNCHANGED <<procVars, parseIn>>

SecretNext == SecretCheck \/ SecretImport \/ SecretGet \/ SecretEncrypt \/ SecretPut

SpecSecret == SecretInit /\ [][SecretNext]_vars


(***************************************************************************)
(* The scripts: one of them is started with some environment.              *)
(***************************************************************************)
Init ==
    /\ script \in {"castle", "kata", "weird", "lunes"}
    /\ status = "running"
    /\ notes = <<>> /\ clicks = <<>> /\ launched = 0 /\ visited = 0
    /\ secrets = <<>>
    /\ parseIn = <<>> /\ parseOut = NoParse
    /\ \/ /\ script = "castle" /\ pc = "entry"
          /\ \E env \in CastleCookieEnv : castle = [CastleInit EXCEPT !.cookie_str = strip(env)]
          /\ kata = Idle /\ lunes = Idle /\ weird = Idle
       \/ /\ script = "kata" /\ pc = "main"
          /\ \E creds \in BOOLEAN : kata = [KataInit EXCEPT !.creds = creds]
          /\ castle = Idle /\ lunes = Idle /\ weird = Idle
       \/ /\ script = "weird" /\ pc = "start"
          /\ \E v \in {"", "v1"} : weird = [WeirdInit EXCEPT !.cookie_value = v]
          /\ castle = Idle /\ kata = Idle /\ lunes = Idle
       \/ /\ script = "lunes" /\ pc = "main"
          /\ \E n \in 0..MaxAccounts : \E cl \in [1..n -> LunesCookieInputs] :
                lunes = [LunesInit EXCEPT !.cookies_list = cl]
          /\ castle = Idle /\ kata = Idle /\ weird = Idle

Next == CastleNext \/ KataNext \/ WeirdNext \/ LunesNext

Spec == Init /\ [][Next]_vars

\* A Weirdhost run on its own.  The script is one asyncio task whose awaits all
\* carry a timeout, so a step that can be taken is eventually taken.
WeirdRunInit == Init /\ script = "weird"

SpecWeird == WeirdRunInit /\ [][WeirdNext]_vars /\ WF_vars(WeirdNext)

(***************************************************************************)
(* Properties.                                                             *)
(***************************************************************************)
HasNote(k) == \E i \in 1..Len(notes) : notes[i].kind = k

HasPhotoNote(k) == \E i \in 1..Len(notes) : notes[i].kind = k /\ notes[i].photo

Finished == pc = "done"

(***************************************************************************)
(* Cookie-string parsing, stated on the input string itself: its segments  *)
(* are the stretches between consecutive ';' characters.                   *)
(***************************************************************************)
NumSegs(s) == Cardinality({i \in 1..Len(s) : s[i] = ";"}) + 1

\* Position of the k-th ';' of s; 0 for k = 0 and Len(s) + 1 past the last one.
SemiPos(s, k) ==
    IF k = 0 THEN 0
    ELSE IF k = NumSegs(s) THEN Len(s) + 1
    ELSE CHOOSE i \in 1..Len(s) :
            s[i] = ";" /\ Cardinality({j \in 1..i : s[j] = ";"}) = k

Segment(s, k) == SubSeq(s, SemiPos(s, k - 1) + 1, SemiPos(s, k) - 1)

EqSegs(s) == {k \in 1..NumSegs(s) : \E i \in 1..Len(Segment(s, k)) : Segment(s, k)[i] = "="}

\* Rank of segment k among the segments that contain '='.
EqRank(s, k) == Cardinality({j \in EqSegs(s) : j <= k})

\* Name and value of a segment: the text before and after its first '=', trimmed.
SegName(seg) ==
    LET e == CHOOSE i \in 1..Len(seg) : seg[i] = "=" /\ \A j \in 1..(i - 1) : seg[j] # "="
    IN  strip(SubSeq(seg, 1, e - 1))

SegValue(seg) ==
    LET e == CHOOSE i \in 1..Len(seg) : seg[i] = "=" /\ \A j \in 1..(i - 1) : seg[j] # "="
    IN  strip(SubSeq(seg, e + 1, Len(seg)))

\* C9 (as stated): both parsers return exactly one record per ';'-separated
\* segment that contains '=', so "a=1; b=2" gives exactly two records, for
\* Castle-Host parse_cookie_string and Lunes parse_cookies alike.
C9_OneRecordPerSegment ==
    (parseOut.fn # "none") =>
        /\ Len(parseOut.cookies) = Cardinality(EqSegs(parseIn))
        /\ (parseIn = ExampleCookie) => Len(parseOut.cookies) = 2

\* C9 (amended): Castle-Host parse_cookie_string returns one record per segment
\* that contains '=', Lunes parse_cookies returns three (one for each of the
\* domains .lunes.host, betadash.lunes.host, ctrl.lunes.host, in that order);
\* the records follow the order of the segments, name and value are the trimmed
\* text before and after the segment's first '=', the path is "/", and segments
\* without '=' contribute nothing.
C9_RecordsPerSegment ==
    LET s == parseIn
        out == parseOut.cookies
    IN  /\ (parseOut.fn = "castle") =>
              /\ Len(out) = Cardinality(EqSegs(s))
              /\ \A k \in EqSegs(s) :
                    out[EqRank(s, k)] = [name |-> SegName(Segment(s, k)),
                                         value |-> SegValue(Segment(s, k)),
                                         domain |-> ".castle-host.com", path |-> "/"]
        /\ (parseOut.fn = "lunes") =>
              /\ Len(out) = 3 * Cardinality(EqSegs(s))
              /\ \A k \in EqSegs(s) : \A d \in 1..3 :
                    out[3 * (EqRank(s, k) - 1) + d] =
                        [name |-> SegName(Segment(s, k)),
                         value |-> SegValue(Segment(s, k)),
                         domain |-> <<".lunes.host", "betadash.lunes.host",
                                      "ctrl.lunes.host">>[d],
                         path |-> "/"]

\* "a=1; b=2" parsed by Lunes parse_cookies: six records.
C9_Witness ==
    /\ parseIn = ExampleCookie
    /\ parseOut.fn = "lunes"
    /\ Len(parseOut.cookies) = 6
    /\ parseOut.cookies[4].name = <<"b">> /\ parseOut.cookies[4].value = <<"2">>

\* C1 (as stated): in the Lunes-Host script a failure while processing account i,
\* browser launch, cookie injection and page creation included, is recorded in
\* that account's result and main ends with exactly one AccountResult for every
\* configured account.
C1_OneResultPerAccount ==
    (script = "lunes" /\ Finished) =>
        /\ Len(lunes.results) = Len(lunes.cookies_list)
        /\ \A j \in 1..Len(lunes.results) : lunes.results[j].index = j

\* C2 (as stated): in every script an exception raised inside the browser routine
\* is caught by the routine and reported, and the process then finishes normally:
\* no run ends with an uncaught exception.
C2_NoRunCrashes ==
    Finished => status # "crashed"

\* The renewal click was followed by no confirming response or redirect and by no
\* known success or error text.
CastleAmbiguous ==
    /\ script = "castle"
    /\ \E i \in 1..Len(clicks) : clicks[i].what = "renew"
    /\ castle.response = "none"
    /\ castle.page_text \in CastlePageTexts
    /\ IndicatorsIn(castle.page_text) \cap (success_indicators \cup error_indicators) = {}

KataAmbiguous ==
    /\ script = "kata"
    /\ \E i \in 1..Len(clicks) : clicks[i].what = "renew"
    /\ kata.url = "other" /\ ~kata.captcha

WeirdAmbiguous ==
    /\ script = "weird"
    /\ clicks # <<>>
    /\ ~weird.renew_result.captured

\* C3 (as stated): a run whose renewal click was followed by no confirming
\* response or redirect and no known success or error text, and that ran to its
\* end without an exception, reports no success and sends a manual-check
\* notification with a screenshot, whatever the number of remaining days.
C3_AmbiguousNeedsManualCheck ==
    (Finished /\ status = "ok" /\ ~HasNote("exception")
       /\ (CastleAmbiguous \/ KataAmbiguous \/ WeirdAmbiguous))
    => (~HasNote("success") /\ HasPhotoNote("manual"))

\* What counts as the failure report of a rejected session: the login-failure
\* notification or the exception notification.
LoginFailureReported == HasNote("login") \/ HasNote("exception")

CooldownSignalled ==
    \/ script = "castle" /\ castle.page_text = "Already renewed in 24 hours"
    \/ script = "kata" /\ kata.url = "renew-error"
    \/ script = "weird" /\ weird.outcome = "cooldown"

\* C5 (as stated): a run in which the provider signalled a renewal cooldown, and
\* that ended without an exception, sends an informational cooldown notification
\* and no failure report.
C5_CooldownIsInformational ==
    (Finished /\ status = "ok" /\ ~HasNote("exception") /\ CooldownSignalled)
    => (HasNote("cooldown") /\ ~HasNote("failure"))

\* The account being processed has had its cookies re-read and re-serialised.
LunesReRead ==
    /\ script = "lunes" /\ pc = "close"
    /\ lunes.result.error = ""
    /\ lunes.extracted # <<>>

LunesPushed == \E i \in 1..Len(secrets) : secrets[i].name = "LUNES_COOKIES"

WeirdPushed == \E i \in 1..Len(secrets) : secrets[i].name = "REMEMBER_WEB_COOKIE"

RenewClicks(kinds) == {i \in 1..Len(clicks) : clicks[i].what \in kinds}

LunesClicksOnce ==
    \A i, j \in 1..Len(clicks) :
        (clicks[i].account = clicks[j].account /\ clicks[i].server = clicks[j].server) => i = j

C8_ResponseDecides ==
    (script = "castle" /\ castle.response # "none" /\ castle.page_text \in CastlePageTexts)
    => (castle.renewal_success <=> castle.response = "200")

CastleNoCredential ==
    script = "castle"
    /\ (castle.cookie_str = <<>> \/ parse_cookie_string(castle.cookie_str) = <<>>)

NothingDone == launched = 0 /\ visited = 0 /\ clicks = <<>>

LunesNoCredentialHandled ==
    \A a \in 1..Len(lunes.cookies_list) :
        (parse_cookies(lunes.cookies_list[a]) = <<>>) =>
            /\ a \notin lunes.launchedFor /\ a \notin lunes.visitedFor
            /\ \A i \in 1..Len(clicks) : clicks[i].account # a
            /\ (a <= Len(lunes.results)) => lunes.results[a].error = "cookie_parse"

\* C10 (as stated): with a credential that is empty or parses to no cookie
\* record no browser is launched, no page visited and no control clicked for
\* that account; Castle-Host and Weirdhost send a notification and return, Lunes
\* sets the error of the account's result.
C10_NoCredentialNotifies ==
    /\ CastleNoCredential =>
          (NothingDone /\ (Finished => (status = "ok" /\ notes = <<Note("config", FALSE)>>)))
    /\ (script = "weird" /\ weird.cookie_value = "") =>
          (NothingDone /\ (Finished => (status = "ok" /\ notes = <<Note("config", FALSE)>>)))
    /\ (script = "lunes") => LunesNoCredentialHandled

\* C10 (amended): as stated, except that Castle-Host sends its notification only
\* for a non-empty credential that parses to no record; with an empty
\* CASTLE_COOKIES the script prints its usage text and exits with status 1
\* before main runs, and sends nothing.
C10_NoCredentialStops ==
    /\ CastleNoCredential =>
          /\ NothingDone
          /\ Finished =>
                IF castle.cookie_str = <<>>
                THEN status = "exit1" /\ notes = <<>>
                ELSE status = "ok" /\ notes = <<Note("config", FALSE)>>
    /\ (script = "weird" /\ weird.cookie_value = "") =>
          (NothingDone /\ (Finished => (status = "ok" /\ notes = <<Note("config", FALSE)>>)))
    /\ (script = "lunes") => LunesNoCredentialHandled

\* Castle-Host ended on a credential without any name=value segment.
C10_Witness ==
    /\ script = "castle" /\ Finished
    /\ castle.cookie_str = <<"x">>
    /\ castle.cookies = <<>>
    /\ notes = <<Note("config", FALSE)>>
    /\ launched = 0

\* C11: in Lunes no browser is open when an account's browser is launched or
\* when main works between and after the accounts; the accounts are handed to
\* process_account in configuration order; main pauses after every account but
\* the last, in order, and never after the last.
C11_SessionsDoNotOverlap ==
    (script = "lunes") =>
        /\ (pc \in {"main", "account", "launch", "collect", "summary", "secret"}) => ~lunes.open
        /\ (Finished /\ status = "ok") => ~lunes.open
        /\ lunes.processed = [i \in 1..Len(lunes.processed) |-> i]
        /\ lunes.launchedFor \subseteq 1..Len(lunes.processed)
        /\ lunes.delays = [i \in 1..Len(lunes.delays) |-> i]
        /\ Len(lunes.delays) < Len(lunes.cookies_list) \/ lunes.cookies_list = <<>>
        /\ (pc \in {"account", "launch", "servers", "start", "close", "collect"}) =>
              Len(lunes.delays) = lunes.idx - 1
        /\ (Finished /\ status = "ok" /\ lunes.cookies_list # <<>>) =>
              Len(lunes.delays) = Len(lunes.cookies_list) - 1

\* Two accounts, both with a browser session, one pause between them.
C11_Witness ==
    /\ script = "lunes" /\ Finished /\ status = "ok"
    /\ lunes.launchedFor = {1, 2}
    /\ lunes.processed = <<1, 2>>
    /\ lunes.delays = <<1>>
    /\ ~lunes.open

\* C12 (as stated): a finished Castle-Host run has appended exactly one record to
\* the history log, and the success flag of that record agrees with the
\* success or failure notification of the run.
C12_ExactlyOneHistoryRecord ==
    (script = "castle" /\ Finished) =>
        /\ Len(castle.history) = 1
        /\ castle.history[1].success <=> HasNote("success")
        /\ ~castle.history[1].success <=> (HasNote("failure") \/ HasNote("exception"))

\* The renewal control was looked for and not found on the page.
ControlNotFound ==
    \/ script = "castle" /\ castle.button_found = "no"
    \/ script = "kata" /\ kata.outcome = "no_button"
    \/ script = "weird" /\ weird.outcome = "no_button"

\* C13 (as stated, for the three renewal scripts): a finished run that did not
\* find the renewal control has performed no click, has sent a notification with
\* a screenshot attached, and has not reported success.
C13_NotFoundReportedWithPhoto ==
    (Finished /\ ControlNotFound) =>
        /\ clicks = <<>>
        /\ ~HasNote("success")
        /\ \E i \in 1..Len(notes) : notes[i].photo

\* The error texts the provider supplies with a rejection that is no cooldown.
ProviderErrorTexts == {"Insufficient funds", "Server error", "Insufficient credits", "Bad Gateway"}

\* The provider rejected the renewal with an error that is not a cooldown.
RejectedNotCooldown ==
    \/ script = "castle" /\ castle.page_text \in {"Insufficient funds", "Server error"}
    \/ script = "weird" /\ weird.outcome = "failure"

\* C14 (as stated): a run that ended without an exception after the provider
\* rejected the renewal with an error that is no cooldown has sent a failure
\* notification that quotes the text the provider supplied.
C14_FailureCarriesProviderText ==
    (Finished /\ status = "ok" /\ ~HasNote("exception") /\ RejectedNotCooldown) =>
        \E i \in 1..Len(notes) :
            notes[i].kind = "failure" /\ notes[i].text \in ProviderErrorTexts


\* Whether the writing names a day of the calendar.
DayExists(w) ==
    /\ w.m \in 1..12
    /\ w.d >= 1
    /\ w.d <= (IF w.m = 2 THEN (IF w.y = 2028 THEN 29 ELSE 28) ELSE 31)

AsDate(w) == [tag |-> "date", y |-> w.y, m |-> w.m, d |-> w.d]

\* The first day of the following month.
NextMonth(dt) ==
    IF dt.m < 12 THEN [dt EXCEPT !.m = @ + 1, !.d = 1]
    ELSE [dt EXCEPT !.y = @ + 1, !.m = 1, !.d = 1]

Earlier(a, b) ==
    \/ a.y < b.y
    \/ a.y = b.y /\ a.m < b.m
    \/ a.y = b.y /\ a.m = b.m /\ a.d < b.d

\* The number of midnights from a to b, for a not after b, month by month.
RECURSIVE CountDays(_, _)
CountDays(a, b) ==
    IF a.y = b.y /\ a.m = b.m THEN b.d - a.d
    ELSE (DaysInMonth(a.y, a.m) - a.d + 1) + CountDays(NextMonth(a), b)

\* Whole days from a to b, negative when b is earlier.
DaysFromTo(a, b) == IF Earlier(b, a) THEN 0 - CountDays(b, a) ELSE CountDays(a, b)

\* A date written in KataBump's format.
WellFormed(w) == w.style = "iso" /\ DayExists(w)

\* A date Castle-Host can read: a real day with a four-digit year.
Parsable(w) == w.style \in {"iso", "dot", "cjk", "slash", "worded"} /\ DayExists(w)

\* C15: days_until gives the whole days from today to a well-formed date and
\* None for any other text; calculate_date_difference gives the whole days from
\* the first to the second date when both can be read and None otherwise; and
\* neither parse_date nor calculate_date_difference lets an exception escape.
C15_DateHelpers ==
    script = "dates" =>
      /\ parseOut.fn = "days_until" =>
            parseOut.days = IF WellFormed(parseIn.a)
                            THEN <<DaysFromTo(parseIn.today, AsDate(parseIn.a))>>
                            ELSE <<>>
      /\ parseOut.fn = "parse_date" =>
            /\ parseOut.date.tag \in {"date", "None"}
            /\ parseOut.date.tag = "date" <=> Parsable(parseIn.a)
      /\ parseOut.fn = "calculate_date_difference" =>
            /\ parseOut.diff.tag \in {"int", "None"}
            /\ IF Parsable(parseIn.a) /\ Parsable(parseIn.b)
               THEN /\ parseOut.diff.tag = "int"
                    /\ parseOut.diff.n = DaysFromTo(AsDate(parseIn.a), AsDate(parseIn.b))
               ELSE parseOut.diff.tag = "None"

\* A text whose digits name no day (31/02/2027) was given to
\* calculate_date_difference, which answered None.
C15_Witness ==
    /\ script = "dates" /\ parseOut.fn = "calculate_date_difference"
    /\ parseIn.a.style = "slash" /\ parseIn.a.m = 2 /\ parseIn.a.d = 31
    /\ Parsable(parseIn.b)
    /\ parseOut.diff.tag = "None"


\* C16 (as stated): Castle-Host clicks the renewal control only when the scraped
\* days until expiry are at most 3 or unknown; with more than 3 days left the
\* run makes no renewal click.
C16_ClicksOnlyNearExpiry ==
    (script = "castle" /\ castle.days_until_expiry = "5") =>
        RenewClicks({"renew", "freePay"}) = {}


\* C17: every Weirdhost run terminates.  wait_for_cloudflare never passes
\* max_wait iterations and at that point returns to its caller (also when every
\* page query raised), the API wait never passes 30 iterations, and there is at
\* most one reload-and-retry round.
C17_WeirdhostTerminates ==
    /\ [](script = "weird" =>
            /\ weird.cf <= weird.cf_max /\ weird.cf_max \in {0, 30, 60}
            /\ weird.i <= ApiWaitIters
            /\ weird.retries <= 1)
    /\ [][(script = "weird" /\ pc = "cf" /\ weird.cf = weird.cf_max /\ pc' # pc)
             => pc' = weird.cf_next]_vars
    /\ (script = "weird") ~> (pc = "done")

\* The challenge wait after the second click ran out with every page query of
\* every iteration raising.
C17_Witness ==
    /\ script = "weird" /\ pc = "cf" /\ weird.cf_next = "poll2"
    /\ weird.cf = 60 /\ weird.cf_all_raised
    /\ weird.retries = 1


SummaryNotes == {i \in 1..Len(notes) : notes[i].kind = "summary"}

\* C18 (as stated): a Lunes run with at least one account sends exactly one
\* summary, after every account has been processed and before any secret
\* update, and the summary marks as started exactly the servers whose Start
\* control was clicked in the run.
C18_OneSummaryOfClickedServers ==
    (script = "lunes" /\ lunes.cookies_list # <<>>) =>
        /\ SummaryNotes # {} => Len(lunes.results) = Len(lunes.cookies_list)
        /\ secrets # <<>> => SummaryNotes # {}
        /\ Finished =>
              /\ Cardinality(SummaryNotes) = 1
              /\ \A i \in SummaryNotes :
                    notes[i].started =
                       {<<clicks[c].account, clicks[c].server>> : c \in 1..Len(clicks)}

\* The texts that contain a cooldown phrase when case is ignored.
CooldownTexts ==
    {"You Can't Renew yet", "CANNOT RENEW: Already Renewed",
     "You can only once at one time period"}

\* The error detail of a body: the detail of its first error, else its text.
DetailOf(body) ==
    IF body.type = "dict" /\ body.errors # <<>> THEN body.errors[1].detail
    ELSE IF body.type = "str" THEN body.text
    ELSE ""

ExpectedClass(st, body) ==
    IF st \in {200, 201, 204} THEN "success"
    ELSE IF st = 400 /\ DetailOf(body) \in CooldownTexts THEN "cooldown"
    ELSE "failure"

\* C19 (as stated): the class is a total function of the captured (status,
\* body): success for 200, 201 and 204, rate-limited for 400 with a cooldown
\* phrase in the error detail, failure otherwise; and the first attempt and the
\* retry path give the same class.
C19_ClassificationIsTotal ==
    script = "classify" =>
        /\ parseOut.fn \in {"first", "retry"} =>
               parseOut.class = ExpectedClass(parseIn.status, parseIn.body)
        /\ weird_classify(parseIn.status, parseIn.body)
              = weird_classify_retry(parseIn.status, parseIn.body)

SecretPuts == {i \in 1..Len(parseOut.http) : parseOut.http[i].method = "PUT"}

\* C20: a PUT is issued only after a public-key GET that returned 200, with the
\* key_id of that response; without credentials or after a failed GET there is no
\* PUT and the update returns False; the update returns True exactly when the
\* PUT returned 201 or 204.
C20_PutFollowsSuccessfulGet ==
    script = "secret" =>
        /\ \A i \in SecretPuts :
              /\ i = 2
              /\ parseOut.http[1].method = "GET" /\ parseOut.http[1].status = 200
              /\ parseOut.http[i].key_id = parseOut.http[1].key_id
              /\ parseOut.http[i].key_id # ""
              /\ parseOut.http[i].name = parseIn.name
        /\ (~parseIn.token \/ ~parseIn.repository) =>
              (parseOut.http = <<>> /\ parseOut.ret \in {"none", "False"})
        /\ (parseOut.at = "returned" /\ SecretPuts = {}) => parseOut.ret = "False"
        /\ parseOut.ret = "True" <=>
              \E i \in SecretPuts : parseOut.http[i].status \in {201, 204}

\* The public-key GET answered 200 with key k2 and the PUT, sent with k2, was
\* refused with 403: the update returned False.
C20_Witness ==
    /\ script = "secret" /\ parseOut.at = "returned" /\ parseOut.ret = "False"
    /\ Len(parseOut.http) = 2
    /\ parseOut.http[1].key_id = "k2" /\ parseOut.http[2].key_id = "k2"
    /\ parseOut.http[2].status = 403

\* The page texts that contain an error indicator when case is ignored.
CastleErrorTexts == {"Already renewed in 24 hours", "Insufficient funds", "Server error"}

\* The renewal button was clicked and the page text was read.
CastleTextRead == script = "castle" /\ castle.page_text \notin {"", "raise"}

\* C21: after the click and the reading of the page text perform_renewal returns
\* False exactly when the text contains an error indicator; otherwise it returns
\* True, with or without a request, a 200 response or a success indicator; and
\* only a True return lets main read the expiry date again.
C21_UnconfirmedClickIsTentativeSuccess ==
    /\ CastleTextRead =>
          (castle.renewal_success <=> castle.page_text \notin CastleErrorTexts)
    /\ (script = "castle" /\ castle.new_expiry # "None") => castle.renewal_success

\* A click that no request, response or success indicator confirmed was taken as
\* a success, and main is about to verify it.
C21_Witness ==
    /\ CastleTextRead /\ pc = "verify"
    /\ ~castle.request_sent /\ castle.response = "none"
    /\ castle.page_text = "Server valid until 12.01.2026"
    /\ castle.renewal_success

\* C22 (as stated): the status and body the main flow reads after it has seen
\* captured = True are both set and are those of one intercepted response.
C22_ReadPairIsOneResponse ==
    (script = "weird" /\ weird.read.status # 0) => weird.read \in WeirdResponses


WeirdOutcomeNotes ==
    {i \in 1..Len(notes) : notes[i].kind \in {"success", "cooldown", "failure", "manual"}}

\* C23 (as stated): a Weirdhost run that clicked the renewal control and ended
\* without an exception has sent exactly one outcome notification.
C23_OneOutcomeNotification ==
    (script = "weird" /\ Finished /\ status = "ok"
       /\ RenewClicks({"renew"}) # {} /\ ~HasNote("exception"))
    => Cardinality(WeirdOutcomeNotes) = 1


\* The day of January 2026 an expiry text of the Castle-Host page names; 0 when
\* it is not a date.
CastleDay(text) ==
    CASE text = "05.01.2026" -> 5
      [] text = "12.01.2026" -> 12
      [] text = "19.01.2026" -> 19
      [] OTHER -> 0

\* C24 (as stated): a Castle-Host run is marked successful (success flag set and
\* the success notification sent) only if an expiry date was read after the
\* renewal and it is strictly later than the one read before it.
C24_SuccessNeedsLaterExpiry ==
    (script = "castle" /\ castle.success /\ HasNote("success"))
    => /\ CastleDay(castle.new_expiry) # 0
       /\ CastleDay(castle.original_expiry) # 0
       /\ CastleDay(castle.new_expiry) > CastleDay(castle.original_expiry)


LunesChangedAccounts ==
    {j \in 1..Len(lunes.results) : lunes.results[j].cookie_changed}

LunesCookiePushes == {i \in 1..Len(secrets) : secrets[i].name = "LUNES_COOKIES"}

\* C25 (as stated): at the end of a Lunes run LUNES_COOKIES has been written if
\* and only if some account's cookie_changed flag is set, and the written value
\* holds one cookie string per configured account in configuration order: the
\* new cookie of an account whose cookie changed, the configured string of
\* every other account.
C25_SecretIffCookieChanged ==
    (script = "lunes" /\ Finished) =>
        /\ (LunesCookiePushes # {}) <=> (LunesChangedAccounts # {})
        /\ \A i \in LunesCookiePushes :
              /\ Len(secrets[i].value) = Len(lunes.cookies_list)
              /\ \A j \in 1..Len(lunes.cookies_list) :
                    secrets[i].value[j] =
                        IF j \in LunesChangedAccounts
                        THEN lunes.results[j].new_cookie
                        ELSE lunes.cookies_list[j]


\* C26 (as stated): a control that carries the disabled attribute, whatever its
\* value, is not clicked.  castle.disabled is the attribute get_attribute
\* returned for the Castle-Host button: "None" when the button has none.
C26_DisabledControlNotClicked ==
    (script = "castle" /\ castle.button_found = "yes" /\ castle.disabled # "None")
    => /\ RenewClicks({"renew"}) = {}
       /\ ~castle.renewal_success


\* The servers of account a whose Start control was clicked.
LunesClickedServers(a) ==
    {clicks[i].server : i \in {n \in 1..Len(clicks) : clicks[n].account = a}}

LunesStartedServers(r) == {r.started[t] : t \in 1..Len(r.started)}

LunesInactiveServers(r) ==
    {r.servers[n].server_id : n \in {m \in 1..Len(r.servers) : ~r.servers[m].is_active}}

\* Clicks go to inactive servers only, once each, and the server loop of an
\* account runs to the end of its list.
LunesStartAttempts ==
    /\ LunesClicksOnce
    /\ \A j \in 1..Len(lunes.results) :
          LunesClickedServers(lunes.results[j].index) \subseteq LunesInactiveServers(lunes.results[j])
    /\ (pc = "close" /\ lunes.result.servers # <<>>) =>
          lunes.k = Len(lunes.result.servers) + 1

\* C27 (as stated): in Lunes the Start control is clicked only for servers
\* scraped as not active, at most once per server, a failed start does not stop
\* the attempts on the remaining servers, and the started list of an account
\* holds exactly the servers whose Start control was clicked.
C27_StartedListIsClickedServers ==
    script = "lunes" =>
        /\ LunesStartAttempts
        /\ \A j \in 1..Len(lunes.results) :
              LunesStartedServers(lunes.results[j]) = LunesClickedServers(lunes.results[j].index)


\* The day of January 2026 an expiry text of the KataBump page names; 0 when it
\* is not a date.
KataDay(text) ==
    CASE text = "2026-01-05" -> 5
      [] text = "2026-01-12" -> 12
      [] text = "2026-01-19" -> 19
      [] OTHER -> 0

KataUrlSuccess == kata.url \in {"renew=success", "renew=success&renew-error"}

KataUrlError == kata.url \in {"renew-error", "renew=success&renew-error"}

KataExpiryLater ==
    /\ KataDay(kata.new_expiry) # 0 /\ KataDay(kata.old_expiry) # 0
    /\ KataDay(kata.new_expiry) > KataDay(kata.old_expiry)

\* The outcome the stated precedence gives.
KataExpectedOutcome ==
    IF KataUrlSuccess THEN "success"
    ELSE IF KataUrlError THEN "limited"
    ELSE IF kata.captcha THEN "captcha"
    ELSE IF KataExpiryLater THEN "success"
    ELSE "unknown"

KataOutcomes == {"success", "limited", "captcha", "unknown"}

KataOutcomeNotes ==
    {i \in 1..Len(notes) : notes[i].kind \in {"success", "cooldown", "captcha", "manual"}}

\* C28: KataBump reports success only when the URL after the confirmation
\* contains renew=success or the re-scraped expiry date is strictly later than
\* the one scraped before the click; the outcome is the first that applies of
\* success redirect, renew-error redirect, captcha, expiry comparison, and a run
\* that gets through the result check has taken exactly one outcome branch.
C28_OutcomeByPrecedence ==
    script = "kata" =>
        /\ HasNote("success") => (KataUrlSuccess \/ KataExpiryLater)
        /\ kata.outcome \in KataOutcomes => kata.outcome = KataExpectedOutcome
        /\ (Finished /\ status = "ok" /\ kata.url \in KataUrls) => kata.outcome \in KataOutcomes
        /\ Cardinality(KataOutcomeNotes) <= 1
        /\ HasNote("success") => kata.outcome = "success"

\* The URL after the confirmation carried both redirect markers and the page
\* mentioned a captcha: the run reported success.
C28_Witness ==
    /\ script = "kata" /\ Finished /\ status = "ok"
    /\ kata.url = "renew=success&renew-error" /\ kata.captcha
    /\ kata.outcome = "success" /\ HasNote("success")


KataModalFailures == {"no_button", "no_modal", "no_confirm"}

\* C29: the confirm button of the KataBump modal is clicked only after the main
\* Renew button was clicked and the modal became visible with a confirm button;
\* when the main button is absent, the modal does not appear or it has no
\* confirm button, there is no confirm click and the run ends with an error
\* report.
C29_ConfirmOnlyInOpenModal ==
    script = "kata" =>
        /\ \A i \in 1..Len(clicks) :
              clicks[i].what = "renew" =>
                 /\ \E j \in 1..(i - 1) : clicks[j].what = "open_modal"
                 /\ kata.outcome \notin KataModalFailures
        /\ kata.outcome \in KataModalFailures =>
              /\ RenewClicks({"renew"}) = {}
              /\ pc \in {"except", "done"}
              /\ HasPhotoNote("nobutton")
              /\ Finished => (HasNote("exception") /\ status = "crashed")
        /\ kata.outcome = "no_button" => clicks = <<>>

\* The main button was clicked, the modal did not become visible: the run ended
\* with the error report and without a confirm click.
C29_Witness ==
    /\ script = "kata" /\ Finished /\ kata.outcome = "no_modal"
    /\ Len(clicks) = 1 /\ clicks[1].what = "open_modal"
    /\ HasNote("exception")


WeirdSecretWrites(name) == {i \in 1..Len(secrets) : secrets[i].name = name}

\* C30 (as stated): in a Weirdhost run REMEMBER_WEB_COOKIE_NAME is updated only
\* if the update of REMEMBER_WEB_COOKIE succeeded in the same run, and neither
\* secret is written on the login-failure, button-not-found or exception paths.
C30_NameFollowsStoredValue ==
    script = "weird" =>
        /\ WeirdSecretWrites("REMEMBER_WEB_COOKIE_NAME") # {} =>
              \E i \in WeirdSecretWrites("REMEMBER_WEB_COOKIE") : secrets[i].ok
        /\ (HasNote("login") \/ weird.outcome = "no_button" \/ HasNote("exception")) =>
              secrets = <<>>

====
